---- MODULE Spec2Model ----
(***************************************************************************)
(* Model of v2x/vlog_to_pbtype.py: grouping of the cells of a module       *)
(* (get_children, get_list_name_and_length), resolution of the             *)
(* interconnect (get_interconnects, net_and_pin_attrs, copy_attrs) and     *)
(* emission of direct and mux connections (make_container_pb).             *)
(*                                                                         *)
(* Python strings are sequences of character codes, so that len(), the     *)
(* lexicographic order of str and "{}[{}]".format are what Python computes.*)
(* Python dicts are sequences of [key, val] records in insertion order.    *)
(***************************************************************************)
EXTENDS Integers, Sequences, FiniteSets, TLC

VARIABLES
    pc,         \* position of the program
    err,        \* "none", or the exception that aborted the run
    gl_l,       \* get_list_name_and_length: the argument l
    gl_ret,     \* get_list_name_and_length: the returned value
    cells,      \* mod.cells with their connections and attributes
    ports,      \* mod.ports: name, width, bits (net ids), iodir
    net_attrs,  \* attributes of the nets of mod, by net id
    port_attrs, \* attributes of the ports of the cell types, by (type, pin)
    routing,    \* get_children: the routing dict
    children,   \* get_children: the children dict
    interconn,  \* get_interconnects: driver pin -> list of (sink pin, attrs)
    directs,    \* the <direct> elements of the interconnect, in order
    muxes,      \* the <mux> elements of the interconnect, in order
    mux_i,      \* make_container_pb: index of the next of routing_cells
    mfa_attributes, \* metadata_from_attributes: the argument attributes
    mfa_mode,       \* metadata_from_attributes: the argument mode
    mfa_ret,        \* metadata_from_attributes: the returned dict
    um_metadata,    \* update_metadata: the argument metadata
    um_new_metadata,     \* update_metadata: the argument new_metadata
    um_concatenate_keys, \* update_metadata: the argument concatenate_keys
    um_ret,         \* update_metadata: the exit status and the returned dict
    incl_metadata,  \* metadata of the included pb_type of each child type
    child_metadata, \* make_container_pb: the metadata written for each group
    module_attrs,   \* mod.module_attrs of the module and of its modes
    mode_cells,     \* the cells of the module re-elaborated for each mode
    modes,          \* make_pb_type: modes, the split MODES attribute
    mode_i,         \* make_pb_type: index of the next of modes
    metadata,       \* make_pb_type: the metadata of the module
    mode_xml,       \* the <mode> sections of the pb_type, in order
    mode_runs,      \* the modes Yosys was rerun with, in order
    mpt_calls,      \* the number of times make_pb_type was entered
    mpt_depth,      \* the deepest nesting of make_pb_type inside a mode
    tmod,           \* vlog_to_model: the cells and the ports of the top module
    sink_port,      \* vlog_to_model: name, the port whose sinks are pruned
    comb_sinks      \* vlog_to_model: sinks, the combinational sinks of the port

netlist == <<cells, ports, net_attrs, port_attrs>>
meta_vars == <<mfa_attributes, mfa_mode, mfa_ret, um_metadata,
               um_new_metadata, um_concatenate_keys, um_ret>>
group_vars == <<incl_metadata, child_metadata>>
mode_vars == <<module_attrs, mode_cells, modes, mode_i, metadata, mode_xml,
               mode_runs, mpt_calls, mpt_depth>>
model_vars == <<tmod, sink_port, comb_sinks>>
vars == <<pc, err, gl_l, gl_ret, cells, ports, net_attrs, port_attrs,
          routing, children, interconn, directs, muxes, mux_i,
          mfa_attributes, mfa_mode, mfa_ret, um_metadata, um_new_metadata,
          um_concatenate_keys, um_ret, incl_metadata, child_metadata,
          module_attrs, mode_cells, modes, mode_i, metadata, mode_xml,
          mode_runs, mpt_calls, mpt_depth, tmod, sink_port, comb_sinks>>

(***************************************************************************)
(* Bounds                                                                  *)
(***************************************************************************)
MaxLen == 3         \* longest list given to get_list_name_and_length
ArrayLen == 11      \* size of the complete generate array a[0] .. a[10]
MaxGroupCells == 3  \* most cells of a module when only grouping is explored
MaxCells == 2       \* most cells of a module whose interconnect is resolved
NumNets == 3        \* net ids 1 .. NumNets

(***************************************************************************)
(* Strings                                                                 *)
(***************************************************************************)
sLB == <<91>>               \* "["
sRB == <<93>>               \* "]"
sA == <<97>>                \* "a"
sB == <<98>>                \* "b"
sI == <<105>>               \* "i"
sM == <<109>>               \* "m"
sGEN == <<36>>              \* "$genblock$...", abbreviated to its "$"
sDOTBS == <<46, 92>>        \* ".\"
None == <<0>>               \* Python None where a str is expected
tLUT == <<76, 85, 84>>      \* "LUT"
tFF == <<70, 70>>           \* "FF"
tMUX == <<77, 85, 88>>      \* "MUX"
tRT == <<82, 84>>           \* "RT"
sTOP == <<84, 79, 80>>      \* "TOP"
sR == <<114>>               \* "r"
pI0 == <<73, 48>>           \* "I0"
pI1 == <<73, 49>>           \* "I1"
pO == <<79>>                \* "O"
pP == <<80>>                \* "P"
pA == <<65>>                \* "A"
pZ == <<90>>                \* "Z"

\* str(i) of a non-negative int
RECURSIVE IntToStr(_)
IntToStr(i) ==
    IF i < 10 THEN <<48 + i>> ELSE IntToStr(i \div 10) \o <<48 + (i % 10)>>

\* "{}[{}]".format(name, index)
Format(name, index) == name \o sLB \o index \o sRB

\* s.rfind(ch), 1-based; 0 when ch is not in s
RFind(s, ch) ==
    IF \E k \in 1..Len(s) : s[k] = ch
    THEN CHOOSE k \in 1..Len(s) :
            s[k] = ch /\ \A j \in (k + 1)..Len(s) : s[j] # ch
    ELSE 0

\* str.__lt__
RECURSIVE StrLess(_, _)
StrLess(a, b) ==
    IF a = <<>> THEN b # <<>>
    ELSE IF b = <<>> THEN FALSE
    ELSE IF Head(a) = Head(b) THEN StrLess(Tail(a), Tail(b))
    ELSE Head(a) < Head(b)

\* the raw name Yosys gives a cell of a generate block
GenName(name, i) == sGEN \o sLB \o IntToStr(i) \o sRB \o sDOTBS \o name

StartsWithGenblock(name) == Len(name) > 0 /\ name[1] = 36

\* GENBLOCK_REGEX.match(name).groups(): the greedy "[(.*)]." "\(.*)"
GenblockGroups(name) ==
    LET close == CHOOSE k \in 1..Len(name) :
                    /\ k + 2 <= Len(name)
                    /\ name[k] = 93 /\ name[k + 1] = 46 /\ name[k + 2] = 92
                    /\ \A j \in (k + 1)..(Len(name) - 2) :
                         ~(name[j] = 93 /\ name[j + 1] = 46
                           /\ name[j + 2] = 92)
        open == CHOOSE k \in 1..close : name[k] = 91
                    /\ \A j \in 1..(k - 1) : name[j] # 91
    IN  [index |-> SubSeq(name, open + 1, close - 1),
         name |-> SubSeq(name, close + 3, Len(name))]

strip_name(name, include_index) ==
    IF StartsWithGenblock(name)
    THEN LET g == GenblockGroups(name)
         IN  IF include_index THEN Format(g.name, g.index) ELSE g.name
    ELSE name

(***************************************************************************)
(* get_list_name_and_length                                                *)
(***************************************************************************)
\* sorted(l, key=len): stable
RECURSIVE InsertByLen(_, _)
InsertByLen(x, s) ==
    IF s = <<>> THEN <<x>>
    ELSE IF Len(x) < Len(Head(s)) THEN <<x>> \o s
    ELSE <<Head(s)>> \o InsertByLen(x, Tail(s))

\* sorted(l, key=len) replaced by l itself
SortedByLen_Unsorted(l) == l

RECURSIVE SortedByLen(_)
SortedByLen(l) ==
    IF l = <<>> THEN <<>>
    ELSE InsertByLen(l[Len(l)], SortedByLen(SubSeq(l, 1, Len(l) - 1)))

GlTrue == [kind |-> "True", name |-> <<>>, n |-> 0]
GlAssertionError == [kind |-> "AssertionError", name |-> <<>>, n |-> 0]

get_list_name_and_length(l) ==
    IF l = <<>> THEN GlTrue
    ELSE IF RFind(l[1], 91) = 0 THEN GlAssertionError
    ELSE LET list_name == SubSeq(l[1], 1, RFind(l[1], 91) - 1)
             sl == SortedByLen(l)
         IN  IF \A i \in 0..(Len(l) - 1) :
                    Format(list_name, IntToStr(i)) = sl[i + 1]
             THEN [kind |-> "tuple", name |-> list_name, n |-> Len(l)]
             ELSE GlAssertionError

NoAttrs == [k \in {} |-> ""]   \* the empty dict of attributes

(***************************************************************************)
(* Python dicts in insertion order                                         *)
(***************************************************************************)
DictHas(d, k) == \E j \in 1..Len(d) : d[j].key = k
DictIdx(d, k) == CHOOSE j \in 1..Len(d) : d[j].key = k
DictGet(d, k) == d[DictIdx(d, k)].val
\* d[k] = v
DictSet(d, k, v) ==
    IF DictHas(d, k)
    THEN [d EXCEPT ![DictIdx(d, k)] = [key |-> k, val |-> v]]
    ELSE Append(d, [key |-> k, val |-> v])
DictKeys(d) == {d[j].key : j \in 1..Len(d)}

(***************************************************************************)
(* get_children                                                            *)
(***************************************************************************)
\* yj.module(ctype).CLASS
CLASS(ctype) == IF ctype \in {tMUX, tRT} THEN "routing" ELSE "none"

\* l.sort(key=lambda t: t[0]): stable, by the short name as a str
RECURSIVE InsertByName(_, _)
InsertByName(x, s) ==
    IF s = <<>> THEN <<x>>
    ELSE IF StrLess(x.name, Head(s).name) THEN <<x>> \o s
    ELSE <<Head(s)>> \o InsertByName(x, Tail(s))

RECURSIVE SortedByName(_)
SortedByName(l) ==
    IF l = <<>> THEN <<>>
    ELSE InsertByName(l[Len(l)], SortedByName(SubSeq(l, 1, Len(l) - 1)))

\* one pass of "for _, l in children.values(): if len(l) > 1: l.sort(...)"
SortLists(d) ==
    [j \in 1..Len(d) |->
        IF Len(d[j].val.members) > 1
        THEN [d[j] EXCEPT !.val.members = SortedByName(@)]
        ELSE d[j]]

\* the body of "for cname, ctype in mod.cells" for one cell; st carries the
\* two dicts and the exception raised so far
ChildrenStep(st, cell) ==
    IF st.err # "none" THEN st
    ELSE
    LET isr == CLASS(cell.ctype) = "routing"
        d == IF isr THEN st.routing ELSE st.children
        cname_prefix == strip_name(cell.cname, FALSE)
        d1 == IF ~DictHas(st.children, cname_prefix)
              THEN DictSet(d, cname_prefix,
                           [ctype |-> cell.ctype, members |-> <<>>])
              ELSE d
    IN  IF ~DictHas(d1, cname_prefix) THEN [st EXCEPT !.err = "KeyError"]
        ELSE IF DictGet(d1, cname_prefix).ctype # cell.ctype
        THEN [st EXCEPT !.err = "AssertionError"]
        ELSE
        LET e == DictGet(d1, cname_prefix)
            d2 == DictSet(d1, cname_prefix,
                    [e EXCEPT !.members = Append(@,
                        [name |-> strip_name(cell.cname, TRUE),
                         attrs |-> cell.cattrs])])
        IN  IF isr THEN [st EXCEPT !.routing = d2]
            ELSE [st EXCEPT !.children = d2]

RECURSIVE ChildrenLoop(_, _)
ChildrenLoop(st, cs) ==
    IF cs = <<>> THEN st ELSE ChildrenLoop(ChildrenStep(st, Head(cs)), Tail(cs))

\* "for d in (routing, children): for _, l in children.values(): ..."
ChildrenSort(st) ==
    [st EXCEPT !.children = SortLists(SortLists(@))]

get_children(cs) ==
    LET st == ChildrenLoop([err |-> "none", routing |-> <<>>,
                            children |-> <<>>], cs)
    IN  IF st.err # "none" THEN st ELSE ChildrenSort(st)

(***************************************************************************)
(* The queries of YosysJSON (v2x/yosys/json.py) used by the resolver       *)
(***************************************************************************)
\* BitName that gives the bit of a port of width 1 an index as well
BitName_Indexed(port, i) == Format(port.name, IntToStr(i))

\* the name of bit i (from 0) of a port: "name" or "name[i]"
BitName(port, i) ==
    IF port.width = 1 THEN port.name ELSE Format(port.name, IntToStr(i))

\* mod.cell_type(name): None when the module has no cell of that name
cell_type(mod, name) ==
    IF \E j \in 1..Len(mod.cells) : mod.cells[j].cname = name
    THEN mod.cells[CHOOSE j \in 1..Len(mod.cells) :
                        mod.cells[j].cname = name].ctype
    ELSE None

\* mod.cell_conns(cname, direction)
cell_conns(cell, direction) ==
    SelectSeq(cell.conns, LAMBDA c : c.dir = direction)

\* the bits of the ports of one direction, in port and bit order
RECURSIVE PortBits(_, _)
PortBits(ps, iodir) ==
    IF ps = <<>> THEN <<>>
    ELSE (IF Head(ps).iodir = iodir
          THEN [i \in 1..Len(Head(ps).bits) |->
                    [name |-> BitName(Head(ps), i - 1),
                     net |-> Head(ps).bits[i]]]
          ELSE <<>>) \o PortBits(Tail(ps), iodir)

\* the pins of one direction of all cells, in cell and pin order
RECURSIVE CellPins(_, _)
CellPins(cs, direction) ==
    IF cs = <<>> THEN <<>>
    ELSE LET cc == cell_conns(Head(cs), direction)
         IN  [i \in 1..Len(cc) |->
                [cell |-> Head(cs).cname, pin |-> cc[i].pin,
                 net |-> cc[i].net]]
             \o CellPins(Tail(cs), direction)

PinsOn(bits, owner, net) ==
    LET on == SelectSeq(bits, LAMBDA b : b.net = net)
    IN  [i \in 1..Len(on) |-> <<owner, on[i].name>>]

CellPinsOn(pins, net) ==
    LET on == SelectSeq(pins, LAMBDA b : b.net = net)
    IN  [i \in 1..Len(on) |-> <<on[i].cell, on[i].pin>>]

\* mod.net_drivers(net): the input ports of the module (owner mod.name) and
\* the output pins of its cells that are on the net
net_drivers(mod, net) ==
    PinsOn(PortBits(mod.ports, "input"), mod.name, net)
    \o CellPinsOn(CellPins(mod.cells, "output"), net)

\* mod.net_sinks(net): the output ports of the module and the input pins of
\* its cells that are on the net
net_sinks(mod, net) ==
    PinsOn(PortBits(mod.ports, "output"), mod.name, net)
    \o CellPinsOn(CellPins(mod.cells, "input"), net)

\* yj.module(ctype).port_attrs(pin)
port_attrs_of(yj, ctype, pin) ==
    IF <<ctype, pin>> \in DOMAIN yj THEN yj[<<ctype, pin>>] ELSE NoAttrs

(***************************************************************************)
(* copy_attrs, net_and_pin_attrs                                           *)
(***************************************************************************)
\* the attributes which are on all srcs dictionaries
AllHave(srcs) ==
    {attr \in UNION {DOMAIN srcs[j] : j \in 1..Len(srcs)} :
        \A j \in 1..Len(srcs) : attr \in DOMAIN srcs[j]}

\* copy_attrs without the comparison with the value on the net
copy_attrs_NoNetCheck(dst, srcs) ==
    LET all_have == AllHave(srcs)
        differ == \E attr \in all_have :
                    \E j \in 2..Len(srcs) : srcs[j][attr] # srcs[1][attr]
    IN  IF differ THEN [err |-> "ValueError", attrs |-> dst]
        ELSE [err |-> "none",
              attrs |-> [k \in DOMAIN dst \cup all_have |->
                            IF k \in all_have THEN srcs[1][k] ELSE dst[k]]]

\* copy_attrs(dst, srcs): the exception raised and dst as it is left
copy_attrs(dst, srcs) ==
    LET all_have == AllHave(srcs)
        differ == \E attr \in all_have :
                    \/ \E j \in 2..Len(srcs) : srcs[j][attr] # srcs[1][attr]
                    \/ attr \in DOMAIN dst /\ dst[attr] # srcs[1][attr]
    IN  IF differ THEN [err |-> "ValueError", attrs |-> dst]
        ELSE [err |-> "none",
              attrs |-> [k \in DOMAIN dst \cup all_have |->
                            IF k \in all_have THEN srcs[1][k] ELSE dst[k]]]

\* filter_src that keeps the 'src' key
filter_src_KeepSrc(x) == x

filter_src(x) == [k \in DOMAIN x \ {"src"} |-> x[k]]

\* the port attributes net_and_pin_attrs collects for the two pins
PotentialAttrs(yj, mod, driver, sink) ==
    LET driver_type == cell_type(mod, driver[1])
        sink_type == cell_type(mod, sink[1])
    IN  (IF driver_type # None
         THEN <<filter_src(port_attrs_of(yj, driver_type, driver[2]))>>
         ELSE <<>>)
        \o (IF sink_type # None
            THEN <<filter_src(port_attrs_of(yj, sink_type, sink[2]))>>
            ELSE <<>>)

net_and_pin_attrs(yj, mod, driver, sink, netid) ==
    copy_attrs(filter_src(mod.net_attrs[netid]),
               PotentialAttrs(yj, mod, driver, sink))

(***************************************************************************)
(* get_interconnects                                                       *)
(***************************************************************************)
\* interconn[key].append(item) on a defaultdict(list)
IcAppend(ic, key, item) ==
    IF DictHas(ic, key)
    THEN [ic EXCEPT ![DictIdx(ic, key)].val = Append(@, item)]
    ELSE Append(ic, [key |-> key, val |-> <<item>>])

NoneIfModule(name, mod_pname) == IF name = mod_pname THEN None ELSE name

\* InputPin without "assert len(drvs) < 2"
InputPin_AnyDriver(yj, mod, mod_pname, valid_names, pb_name, acc, conn) ==
    IF acc.err # "none" THEN acc
    ELSE
    LET drvs == net_drivers(mod, conn.net)
    IN  IF ~(Len(drvs) > 0) THEN [acc EXCEPT !.err = "assert_no_driver"]
        ELSE
        LET drv == drvs[1]
            net_attr == net_and_pin_attrs(yj, mod, drv,
                                          <<pb_name, conn.pin>>, conn.net)
            drv_cell_name == strip_name(drv[1], TRUE)
        IN  IF net_attr.err # "none" THEN [acc EXCEPT !.err = net_attr.err]
            ELSE IF drv_cell_name \notin valid_names
            THEN [acc EXCEPT !.err = "assert_valid_name"]
            ELSE [acc EXCEPT !.ic =
                    IcAppend(@, <<NoneIfModule(drv_cell_name, mod_pname),
                                  drv[2]>>,
                             [pin |-> <<pb_name, conn.pin>>,
                              attr |-> net_attr.attrs])]

\* the body of "for pin, net in inp_cons"
InputPin(yj, mod, mod_pname, valid_names, pb_name, acc, conn) ==
    IF acc.err # "none" THEN acc
    ELSE
    LET drvs == net_drivers(mod, conn.net)
    IN  IF ~(Len(drvs) > 0) THEN [acc EXCEPT !.err = "assert_no_driver"]
        ELSE IF ~(Len(drvs) < 2)
        THEN [acc EXCEPT !.err = "assert_multiple_drivers"]
        ELSE
        LET drv == drvs[1]
            net_attr == net_and_pin_attrs(yj, mod, drv,
                                          <<pb_name, conn.pin>>, conn.net)
            drv_cell_name == strip_name(drv[1], TRUE)
        IN  IF net_attr.err # "none" THEN [acc EXCEPT !.err = net_attr.err]
            ELSE IF drv_cell_name \notin valid_names
            THEN [acc EXCEPT !.err = "assert_valid_name"]
            ELSE [acc EXCEPT !.ic =
                    IcAppend(@, <<NoneIfModule(drv_cell_name, mod_pname),
                                  drv[2]>>,
                             [pin |-> <<pb_name, conn.pin>>,
                              attr |-> net_attr.attrs])]

RECURSIVE InputPins(_, _, _, _, _, _, _)
InputPins(yj, mod, mod_pname, valid_names, pb_name, acc, conns) ==
    IF conns = <<>> THEN acc
    ELSE InputPins(yj, mod, mod_pname, valid_names, pb_name,
                   InputPin(yj, mod, mod_pname, valid_names, pb_name, acc,
                            Head(conns)),
                   Tail(conns))

\* the body of "for sink_cell, sink_pin in sinks" of an output pin
OutputSink(yj, mod, pb_name, acc, conn, sink) ==
    IF acc.err # "none" \/ sink[1] # mod.name THEN acc
    ELSE
    LET net_attr == net_and_pin_attrs(yj, mod, <<pb_name, conn.pin>>,
                                      <<None, sink[2]>>, conn.net)
    IN  IF net_attr.err # "none" THEN [acc EXCEPT !.err = net_attr.err]
        ELSE [acc EXCEPT !.ic =
                IcAppend(@, <<pb_name, conn.pin>>,
                         [pin |-> <<None, sink[2]>>,
                          attr |-> net_attr.attrs])]

RECURSIVE OutputSinks(_, _, _, _, _, _)
OutputSinks(yj, mod, pb_name, acc, conn, sinks) ==
    IF sinks = <<>> THEN acc
    ELSE OutputSinks(yj, mod, pb_name,
                     OutputSink(yj, mod, pb_name, acc, conn, Head(sinks)),
                     conn, Tail(sinks))

RECURSIVE OutputPins(_, _, _, _, _)
OutputPins(yj, mod, pb_name, acc, conns) ==
    IF conns = <<>> THEN acc
    ELSE OutputPins(yj, mod, pb_name,
                    OutputSinks(yj, mod, pb_name, acc, Head(conns),
                                net_sinks(mod, Head(conns).net)),
                    Tail(conns))

\* the body of "for cname, ctype in mod.cells"
InterconnCell(yj, mod, mod_pname, valid_names, acc, cell) ==
    IF acc.err # "none" THEN acc
    ELSE IF strip_name(cell.cname, TRUE) \notin valid_names
    THEN [acc EXCEPT !.err = "assert_valid_name"]
    ELSE
    LET pb_name == NoneIfModule(strip_name(cell.cname, TRUE), mod_pname)
        inputs == InputPins(yj, mod, mod_pname, valid_names, pb_name, acc,
                            cell_conns(cell, "input"))
    IN  OutputPins(yj, mod, pb_name, inputs, cell_conns(cell, "output"))

RECURSIVE InterconnCells(_, _, _, _, _, _)
InterconnCells(yj, mod, mod_pname, valid_names, acc, cs) ==
    IF cs = <<>> THEN acc
    ELSE InterconnCells(yj, mod, mod_pname, valid_names,
                        InterconnCell(yj, mod, mod_pname, valid_names, acc,
                                      Head(cs)),
                        Tail(cs))

\* the passthrough connections of one output bit, in input order
RECURSIVE PassthroughOf(_, _, _)
PassthroughOf(ic, out, inps) ==
    IF inps = <<>> THEN ic
    ELSE PassthroughOf(IF out.net = Head(inps).net
                       THEN IcAppend(ic, <<None, Head(inps).name>>,
                                     [pin |-> <<None, out.name>>,
                                      attr |-> NoAttrs])
                       ELSE ic,
                       out, Tail(inps))

RECURSIVE Passthrough(_, _, _)
Passthrough(ic, outs, inps) ==
    IF outs = <<>> THEN ic
    ELSE Passthrough(PassthroughOf(ic, Head(outs), inps), Tail(outs), inps)

\* pin_sort(p)
pin_sort(p) == IF p.pin[1] = None THEN <<<<>>, p.pin[2]>> ELSE p.pin

\* the order of the tuples (str, str)
KeyLess(k1, k2) ==
    \/ StrLess(k1[1], k2[1])
    \/ k1[1] = k2[1] /\ StrLess(k1[2], k2[2])

\* l.sort(key=pin_sort): stable
RECURSIVE InsertByPin(_, _)
InsertByPin(x, s) ==
    IF s = <<>> THEN <<x>>
    ELSE IF KeyLess(pin_sort(x), pin_sort(Head(s))) THEN <<x>> \o s
    ELSE <<Head(s)>> \o InsertByPin(x, Tail(s))

RECURSIVE SortedByPin(_)
SortedByPin(l) ==
    IF l = <<>> THEN <<>>
    ELSE InsertByPin(l[Len(l)], SortedByPin(SubSeq(l, 1, Len(l) - 1)))

\* get_interconnects without the final sort of the sinks
SortSinks_Unsorted(ic) == ic

\* "for l in interconn.values(): l.sort(key=pin_sort)"
SortSinks(ic) == [j \in 1..Len(ic) |-> [ic[j] EXCEPT !.val = SortedByPin(@)]]

get_interconnects(yj, mod, mod_pname, valid_names) ==
    LET acc == InterconnCells(yj, mod, mod_pname, valid_names,
                              [err |-> "none", ic |-> <<>>], mod.cells)
    IN  IF acc.err # "none" THEN acc
        ELSE [acc EXCEPT !.ic =
                SortSinks(Passthrough(@, PortBits(mod.ports, "output"),
                                      PortBits(mod.ports, "input")))]

(***************************************************************************)
(* make_container_pb: the interconnect                                     *)
(***************************************************************************)
\* s.replace(g, "") for a non-empty g
RECURSIVE RemoveAll(_, _)
RemoveAll(s, g) ==
    IF Len(s) < Len(g) THEN s
    ELSE IF SubSeq(s, 1, Len(g)) = g
    THEN RemoveAll(SubSeq(s, Len(g) + 1, Len(s)), g)
    ELSE <<Head(s)>> \o RemoveAll(Tail(s), g)

IsDigit(c) == 48 <= c /\ c <= 57

\* re.search(r'\[[0-9]+\](?!$)', s): <<first, last>> of the leftmost match,
\* <<0, 0>> when there is none
IndexNotAtEnd(s) ==
    LET matches == {m \in (1..Len(s)) \X (1..Len(s)) :
                        /\ m[1] + 2 <= m[2] /\ m[2] < Len(s)
                        /\ s[m[1]] = 91 /\ s[m[2]] = 93
                        /\ \A k \in (m[1] + 1)..(m[2] - 1) : IsDigit(s[k])}
    IN  IF matches = {} THEN <<0, 0>>
        ELSE CHOOSE m \in matches : \A o \in matches : m[1] <= o[1]

normalize_pb_name(pb_name) ==
    IF pb_name = None THEN None
    ELSE
    LET index == IndexNotAtEnd(pb_name)
        normalized_name == [k \in 1..Len(pb_name) |->
                              IF pb_name[k] = 46 THEN 95 ELSE pb_name[k]]
    IN  IF index = <<0, 0>> THEN normalized_name
        ELSE RemoveAll(normalized_name, SubSeq(pb_name, index[1], index[2]))
             \o <<95>> \o SubSeq(pb_name, index[1] + 1, index[2] - 1)

\* [c[0] for c in children_data] over the values of a dict, in order
RECURSIVE MemberNameList(_)
MemberNameList(d) ==
    IF d = <<>> THEN <<>>
    ELSE [k \in 1..Len(Head(d).val.members) |->
            Head(d).val.members[k].name] \o MemberNameList(Tail(d))

SeqToSet(l) == {l[k] : k \in 1..Len(l)}

valid_names_of(mod_pname, rt, ch) ==
    {mod_pname} \cup SeqToSet(MemberNameList(rt))
                \cup SeqToSet(MemberNameList(ch))

\* DirectSinks without "if sink_cell in routing_cells: continue"
RECURSIVE DirectSinks_NoSkip(_, _, _)
DirectSinks_NoSkip(driver, sinks, routing_cells) ==
    IF sinks = <<>> THEN <<>>
    ELSE <<[driver |-> <<normalize_pb_name(driver[1]), driver[2]>>,
            sink |-> <<normalize_pb_name(Head(sinks).pin[1]),
                       Head(sinks).pin[2]>>,
            attr |-> Head(sinks).attr]>>
         \o DirectSinks_NoSkip(driver, Tail(sinks), routing_cells)

\* the direct connections of the sinks of one driver
RECURSIVE DirectSinks(_, _, _)
DirectSinks(driver, sinks, routing_cells) ==
    IF sinks = <<>> THEN <<>>
    ELSE (IF Head(sinks).pin[1] \in routing_cells THEN <<>>
          ELSE <<[driver |-> <<normalize_pb_name(driver[1]), driver[2]>>,
                  sink |-> <<normalize_pb_name(Head(sinks).pin[1]),
                             Head(sinks).pin[2]>>,
                  attr |-> Head(sinks).attr]>>)
         \o DirectSinks(driver, Tail(sinks), routing_cells)

\* "for (driver_cell, driver_pin), sinks in interconn.items()": make_direct_conn
RECURSIVE DirectConns(_, _)
DirectConns(ic, routing_cells) ==
    IF ic = <<>> THEN <<>>
    ELSE (IF Head(ic).key[1] \in routing_cells THEN <<>>
          ELSE DirectSinks(Head(ic).key, Head(ic).val, routing_cells))
         \o DirectConns(Tail(ic), routing_cells)

\* MuxOutputs that stops at the first driver pin of mux_cell
RECURSIVE MuxOutputs_FirstPin(_, _, _)
MuxOutputs_FirstPin(ic, mux_cell, acc) ==
    IF ic = <<>> THEN acc
    ELSE IF Head(ic).key[1] = mux_cell
    THEN Append(acc, [key |-> Head(ic).key[2], val |-> Head(ic).val])
    ELSE MuxOutputs_FirstPin(Tail(ic), mux_cell, acc)

\* mux_outputs[driver_pin].extend(sinks) for the drivers of mux_cell
RECURSIVE MuxOutputs(_, _, _)
MuxOutputs(ic, mux_cell, acc) ==
    IF ic = <<>> THEN acc
    ELSE MuxOutputs(Tail(ic), mux_cell,
            IF Head(ic).key[1] # mux_cell THEN acc
            ELSE IF DictHas(acc, Head(ic).key[2])
            THEN [acc EXCEPT ![DictIdx(acc, Head(ic).key[2])].val =
                                @ \o Head(ic).val]
            ELSE Append(acc, [key |-> Head(ic).key[2], val |-> Head(ic).val]))

\* the body of "for (sink_cell, mux_pin), path_attr in sinks" that collects
\* mux_inputs; sink_pin is the variable the loop over the sinks of the mux
\* output has left behind
MuxInput(acc, driver, sink, mux_cell, routing_cells, sink_pin) ==
    IF acc.err # "none" \/ sink.pin[1] # mux_cell THEN acc
    ELSE IF driver[1] \in routing_cells
    THEN [acc EXCEPT !.err = "assert_mux_drives_mux_input"]
    ELSE IF DictHas(acc.mux_inputs, sink_pin)
    THEN [acc EXCEPT !.err = "assert_mux_pin_already_driven"]
    ELSE [acc EXCEPT !.mux_inputs = DictSet(@, sink.pin[2], driver)]

RECURSIVE MuxInputSinks(_, _, _, _, _, _)
MuxInputSinks(acc, driver, sinks, mux_cell, routing_cells, sink_pin) ==
    IF sinks = <<>> THEN acc
    ELSE MuxInputSinks(MuxInput(acc, driver, Head(sinks), mux_cell,
                                routing_cells, sink_pin),
                       driver, Tail(sinks), mux_cell, routing_cells, sink_pin)

RECURSIVE MuxInputs(_, _, _, _, _)
MuxInputs(acc, ic, mux_cell, routing_cells, sink_pin) ==
    IF ic = <<>> THEN acc
    ELSE MuxInputs(MuxInputSinks(acc, Head(ic).key, Head(ic).val, mux_cell,
                                 routing_cells, sink_pin),
                   Tail(ic), mux_cell, routing_cells, sink_pin)

\* make_mux_conn: the <mux> element, or the assertion that fails
make_mux_conn(mux_name, mux_inputs, mux_outputs) ==
    IF Len(mux_outputs) # 1 THEN [err |-> "assert_mux_outputs", mux |-> <<>>]
    ELSE IF Len(mux_outputs[1].val) # 1
    THEN [err |-> "assert_mux_sinks", mux |-> <<>>]
    ELSE [err |-> "none",
          mux |-> <<[name |-> mux_name,
                     inputs |-> mux_inputs,
                     outputs |-> [o \in 1..Len(mux_outputs) |->
                        [pin |-> mux_outputs[o].key,
                         sinks |-> [k \in 1..Len(mux_outputs[o].val) |->
                                        mux_outputs[o].val[k].pin]]]]>>]

\* MuxOf that looks for routing instances among no names at all
MuxOf_NoRoutingNames(ic, mux_cell, routing_cells) ==
    LET mux_outputs == MuxOutputs(ic, mux_cell, <<>>)
    IN  IF Len(mux_outputs) # 1
        THEN [err |-> "assert_mux_outputs", mux |-> <<>>]
        ELSE IF Len(mux_outputs[1].val) # 1
        THEN [err |-> "assert_mux_sinks", mux |-> <<>>]
        ELSE
        LET sink_pin == mux_outputs[1].val[1].pin[2]
            acc == MuxInputs([err |-> "none", mux_inputs |-> <<>>], ic,
                             mux_cell, {}, sink_pin)
        IN  IF acc.err # "none" THEN [err |-> acc.err, mux |-> <<>>]
            ELSE make_mux_conn(mux_cell, acc.mux_inputs, mux_outputs)

\* the body of "for mux_cell in routing_cells"
MuxOf(ic, mux_cell, routing_cells) ==
    LET mux_outputs == MuxOutputs(ic, mux_cell, <<>>)
    IN  IF Len(mux_outputs) # 1
        THEN [err |-> "assert_mux_outputs", mux |-> <<>>]
        ELSE IF Len(mux_outputs[1].val) # 1
        THEN [err |-> "assert_mux_sinks", mux |-> <<>>]
        ELSE IF mux_outputs[1].val[1].pin[1] \in SeqToSet(routing_cells)
        THEN [err |-> "assert_mux_drives_mux", mux |-> <<>>]
        ELSE
        LET sink_pin == mux_outputs[1].val[1].pin[2]
            acc == MuxInputs([err |-> "none", mux_inputs |-> <<>>], ic,
                             mux_cell, SeqToSet(routing_cells), sink_pin)
        IN  IF acc.err # "none" THEN [err |-> acc.err, mux |-> <<>>]
            ELSE make_mux_conn(mux_cell, acc.mux_inputs, mux_outputs)

(***************************************************************************)
(* Metadata: parse_fasm_attribute, metadata_from_attributes,               *)
(* update_metadata and the sanity checks                                   *)
(***************************************************************************)
sFASM_PREFIX == <<70, 65, 83, 77, 95, 80, 82, 69, 70, 73, 88>>
sFASM_FEATURES == <<70, 65, 83, 77, 95, 70, 69, 65, 84, 85, 82, 69, 83>>
sFASM_PARAMS == <<70, 65, 83, 77, 95, 80, 65, 82, 65, 77, 83>>
KNOWN_FASM_ATTRS == <<sFASM_PREFIX, sFASM_FEATURES, sFASM_PARAMS>>

\* str.lower() on ASCII
Lower(s) == [i \in 1..Len(s) |-> IF s[i] \in 65..90 THEN s[i] + 32 ELSE s[i]]

kFasmPrefix == Lower(sFASM_PREFIX)       \* "fasm_prefix"
kFasmFeatures == Lower(sFASM_FEATURES)   \* "fasm_features"
kFasmParams == Lower(sFASM_PARAMS)       \* "fasm_params"
kFasmLut == <<102, 97, 115, 109, 95, 108, 117, 116>>    \* "fasm_lut"

StartsWith(s, prefix) ==
    Len(s) >= Len(prefix) /\ SubSeq(s, 1, Len(prefix)) = prefix

\* the longest prefix of s matched by [A-Z0-9_]*
RECURSIVE ModeChars(_)
ModeChars(s) ==
    IF s = <<>> THEN <<>>
    ELSE IF Head(s) \in 65..90 \/ Head(s) \in 48..57 \/ Head(s) = 95
    THEN <<Head(s)>> \o ModeChars(Tail(s))
    ELSE <<>>

\* what follows "<known>_" in an attribute name
AfterKnown(attribute, k) ==
    SubSeq(attribute, Len(KNOWN_FASM_ATTRS[k]) + 2, Len(attribute))

\* parse_fasm_attribute(attribute): (name, mode)
parse_fasm_attribute(attribute) ==
    IF \E k \in 1..Len(KNOWN_FASM_ATTRS) : KNOWN_FASM_ATTRS[k] = attribute
    THEN [name |-> attribute, mode |-> None]
    ELSE
    LET matching == {k \in 1..Len(KNOWN_FASM_ATTRS) :
                        /\ StartsWith(attribute, KNOWN_FASM_ATTRS[k] \o <<95>>)
                        /\ ModeChars(AfterKnown(attribute, k)) # <<>>}
    IN  IF matching = {} THEN [name |-> None, mode |-> None]
        ELSE LET k == CHOOSE x \in matching : \A y \in matching : x <= y
             IN  [name |-> KNOWN_FASM_ATTRS[k],
                  mode |-> ModeChars(AfterKnown(attribute, k))]

\* the body of "for attr, value in attributes.items()"
MetadataItem(md, item, mode) ==
    LET p == parse_fasm_attribute(item.key)
    IN  IF p.name = None THEN md
        ELSE IF mode # None /\ p.mode # mode THEN md
        ELSE DictSet(md, Lower(p.name), item.val)

RECURSIVE MetadataItems(_, _, _)
MetadataItems(md, items, mode) ==
    IF items = <<>> THEN md
    ELSE MetadataItems(MetadataItem(md, Head(items), mode), Tail(items), mode)

metadata_from_attributes(attributes, mode) ==
    MetadataItems(<<>>, attributes, mode)

\* x in s for two str
IsSubstring(x, s) ==
    \E k \in 0..(Len(s) - Len(x)) : SubSeq(s, k + 1, k + Len(x)) = x

\* "key in concatenate_keys": membership in a tuple, substring of a str
KeyIn(key, concatenate_keys) ==
    IF concatenate_keys.kind = "str"
    THEN IsSubstring(key, concatenate_keys.str)
    ELSE key \in concatenate_keys.items

TupleOf(items) == [kind |-> "tuple", items |-> items, str |-> <<>>]
StrOf(str) == [kind |-> "str", items |-> {}, str |-> str]

\* update_metadata where an existing key takes the new value
UpdateItem_Overwrite(st, item, concatenate_keys) ==
    IF st.err # "none" THEN st
    ELSE [st EXCEPT !.metadata = DictSet(@, item.key, item.val)]

\* the body of "for key, value in new_metadata.items()"
UpdateItem(st, item, concatenate_keys) ==
    IF st.err # "none" THEN st
    ELSE IF ~DictHas(st.metadata, item.key)
    THEN [st EXCEPT !.metadata = DictSet(@, item.key, item.val)]
    ELSE IF KeyIn(item.key, concatenate_keys)
    THEN [st EXCEPT !.metadata =
            DictSet(@, item.key,
                    DictGet(st.metadata, item.key) \o <<32>> \o item.val)]
    ELSE IF DictGet(st.metadata, item.key) # item.val
    THEN [st EXCEPT !.err = "exit_metadata_conflict"]
    ELSE st

RECURSIVE UpdateItems(_, _, _)
UpdateItems(st, items, concatenate_keys) ==
    IF items = <<>> THEN st
    ELSE UpdateItems(UpdateItem(st, Head(items), concatenate_keys),
                     Tail(items), concatenate_keys)

\* update_metadata(metadata, new_metadata, concatenate_keys): the exit status
\* and the dict returned
update_metadata(md, new_metadata, concatenate_keys) ==
    UpdateItems([err |-> "none", metadata |-> md], new_metadata,
                concatenate_keys)

\* sanity_check_child_metadata(metadata): TRUE when it returns
sanity_check_child_metadata(md) ==
    \A j \in 1..Len(md) : md[j].key \notin {kFasmParams, kFasmLut}

\* sanity_check_parent_metadata(metadata): TRUE when it returns
sanity_check_parent_metadata(md) ==
    \A j \in 1..Len(md) : md[j].key \notin {kFasmPrefix}

\* s.split(sep) for a separator of one character
RECURSIVE Split(_, _)
Split(s, sep) ==
    IF \A k \in 1..Len(s) : s[k] # sep THEN <<s>>
    ELSE LET k == CHOOSE x \in 1..Len(s) :
                    s[x] = sep /\ \A y \in 1..(x - 1) : s[y] # sep
         IN  <<SubSeq(s, 1, k - 1)>> \o Split(SubSeq(s, k + 1, Len(s)), sep)

IsSpace(c) == c \in {9, 10, 11, 12, 13, 32}

\* s.strip()
RECURSIVE LStrip(_)
LStrip(s) ==
    IF s # <<>> /\ IsSpace(Head(s)) THEN LStrip(Tail(s)) ELSE s
RECURSIVE RStrip(_)
RStrip(s) ==
    IF s # <<>> /\ IsSpace(s[Len(s)]) THEN RStrip(SubSeq(s, 1, Len(s) - 1))
    ELSE s
Strip(s) == RStrip(LStrip(s))

(***************************************************************************)
(* make_container_pb: the metadata of the child groups                     *)
(***************************************************************************)
\* ArrayMember that gives every member the first prefix of the list
ArrayMember_FirstPrefix(st, i, child_attrs, n) ==
    IF st.err # "none" THEN st
    ELSE
    LET attr_metadata == metadata_from_attributes(child_attrs, None)
        has == DictHas(attr_metadata, kFasmPrefix)
        fasm_prefixes == IF has
                         THEN Split(DictGet(attr_metadata, kFasmPrefix), 59)
                         ELSE <<>>
    IN  IF ~sanity_check_child_metadata(attr_metadata)
        THEN [st EXCEPT !.err = "exit_child_metadata"]
        ELSE IF has /\ Len(fasm_prefixes) # n
        THEN [st EXCEPT !.err = "exit_prefix_count"]
        ELSE
        LET r == update_metadata(
                    st.metadata,
                    IF has
                    THEN DictSet(attr_metadata, kFasmPrefix, fasm_prefixes[1])
                    ELSE attr_metadata,
                    StrOf(kFasmPrefix))
        IN  [err |-> r.err, metadata |-> r.metadata,
             fasm_prefix_count |-> st.fasm_prefix_count + 1]

\* the body of "for i, child_attrs in enumerate(children_attrs)", i from 1,
\* for a group of n members
ArrayMember(st, i, child_attrs, n) ==
    IF st.err # "none" THEN st
    ELSE
    LET attr_metadata == metadata_from_attributes(child_attrs, None)
        has == DictHas(attr_metadata, kFasmPrefix)
        fasm_prefixes == IF has
                         THEN Split(DictGet(attr_metadata, kFasmPrefix), 59)
                         ELSE <<>>
    IN  IF ~sanity_check_child_metadata(attr_metadata)
        THEN [st EXCEPT !.err = "exit_child_metadata"]
        ELSE IF has /\ Len(fasm_prefixes) # n
        THEN [st EXCEPT !.err = "exit_prefix_count"]
        ELSE
        LET r == update_metadata(
                    st.metadata,
                    IF has
                    THEN DictSet(attr_metadata, kFasmPrefix, fasm_prefixes[i])
                    ELSE attr_metadata,
                    StrOf(kFasmPrefix))
        IN  [err |-> r.err, metadata |-> r.metadata,
             fasm_prefix_count |-> st.fasm_prefix_count + 1]

RECURSIVE ArrayMembers(_, _, _)
ArrayMembers(st, i, children_data) ==
    IF i > Len(children_data) THEN st
    ELSE ArrayMembers(ArrayMember(st, i, children_data[i].attrs,
                                  Len(children_data)),
                      i + 1, children_data)

\* lines 825 to 833: the checks after the loop over the members and the
\* merge with the metadata of the included pb_type
ArrayMetadata(st, n, incl_medatata) ==
    IF st.err # "none" THEN [err |-> st.err, metadata |-> <<>>]
    ELSE IF st.fasm_prefix_count > 0 /\ st.fasm_prefix_count # n
    THEN [err |-> "exit_prefix_missing", metadata |-> <<>>]
    ELSE update_metadata(st.metadata, incl_medatata, TupleOf({}))

\* lines 783 to 790: the metadata of a group of one member
SingleMetadata(attr_metadata, incl_medatata) ==
    IF ~sanity_check_child_metadata(attr_metadata)
    THEN [err |-> "exit_child_metadata", metadata |-> <<>>]
    ELSE update_metadata(attr_metadata, incl_medatata, TupleOf({}))

\* the metadata written for one child group: lines 781 to 833
GroupMetadata(children_data, incl_medatata) ==
    IF Len(children_data) = 1
    THEN SingleMetadata(
            metadata_from_attributes(children_data[1].attrs, None),
            incl_medatata)
    ELSE ArrayMetadata(
            ArrayMembers([err |-> "none", metadata |-> <<>>,
                          fasm_prefix_count |-> 0], 1, children_data),
            Len(children_data), incl_medatata)

\* metadata_from_incl_xml of the pb_type of a child type
InclMetadata(incl, child_type) ==
    IF DictHas(incl, child_type) THEN DictGet(incl, child_type) ELSE <<>>

\* the metadata r of the group g joined to what is written so far
GroupWritten(acc, g, r) ==
    [err |-> r.err,
     written |-> IF r.err # "none" THEN acc.written
                 ELSE Append(acc.written,
                             [prefix |-> g.key, metadata |-> r.metadata])]

\* "for child_prefix, (child_type, children_data) in children.items()"
RECURSIVE GroupsMetadata(_, _, _)
GroupsMetadata(acc, groups, incl) ==
    IF groups = <<>> \/ acc.err # "none" THEN acc
    ELSE GroupsMetadata(
            GroupWritten(acc, Head(groups),
                         GroupMetadata(Head(groups).val.members,
                                       InclMetadata(incl,
                                                    Head(groups).val.ctype))),
            Tail(groups), incl)

(***************************************************************************)
(* make_pb_type: blackbox modules                                          *)
(***************************************************************************)
sBlackbox == <<98, 108, 97, 99, 107, 98, 111, 120>>         \* "blackbox"
sWhitebox == <<119, 104, 105, 116, 101, 98, 111, 120>>      \* "whitebox"
sLibWhitebox == <<108, 105, 98, 95>> \o sWhitebox           \* "lib_whitebox"

\* mod.attr(name, 0) == 1
AttrIsOne(attrs, name) == DictHas(attrs, name) /\ DictGet(attrs, name) = 1

\* is_mod_blackbox(mod)
is_mod_blackbox(attrs) ==
    \/ AttrIsOne(attrs, sLibWhitebox)
    \/ AttrIsOne(attrs, sWhitebox)
    \/ AttrIsOne(attrs, sBlackbox)

\* "is_blackbox = is_mod_blackbox(mod) or not mod.cells"
is_blackbox(attrs, cs) == is_mod_blackbox(attrs) \/ cs = <<>>

\* "routing = children = []; if not is_blackbox: routing, children =
\* get_children(yj, mod)"
ChildrenOf(attrs, cs) ==
    IF is_blackbox(attrs, cs)
    THEN [err |-> "none", routing |-> <<>>, children |-> <<>>]
    ELSE get_children(cs)

(***************************************************************************)
(* make_pb_type: the modes                                                 *)
(***************************************************************************)
sMODES == <<77, 79, 68, 69, 83>>     \* "MODES"

MaxDepth == 2       \* deepest nesting of mode builds that is followed

\* "modes = mod.attr('MODES', None)", split at ";" when it is there
ModesOf(attrs) ==
    IF DictHas(attrs, sMODES) THEN Split(DictGet(attrs, sMODES), 59) ELSE <<>>

\* the test of line 1091, were a mode build to expand the modes as well
ExpandsModes_Always(mds, mode_processing) == mds # <<>>

\* "if modes and not mode_processing"
ExpandsModes(mds, mode_processing) == mds # <<>> /\ ~mode_processing

\* mode_interconnects(mod, mode_name)
RECURSIVE mode_interconnects(_, _)
mode_interconnects(mod_ports, mode_name) ==
    IF mod_ports = <<>> THEN <<>>
    ELSE LET port == mod_ports[Len(mod_ports)]
             before == mode_interconnects(
                            SubSeq(mod_ports, 1, Len(mod_ports) - 1),
                            mode_name)
         IN  IF port.iodir = "input"
             THEN DictSet(before, <<None, port.name>>,
                          <<[pin |-> <<mode_name, port.name>>,
                             attr |-> NoAttrs]>>)
             ELSE DictSet(before, <<mode_name, port.name>>,
                          <<[pin |-> <<None, port.name>>,
                             attr |-> NoAttrs]>>)

\* "for mux_cell in routing_cells" from the k-th routing cell on
RECURSIVE MuxLoop(_, _, _, _)
MuxLoop(acc, ic, routing_cells, k) ==
    IF k > Len(routing_cells) \/ acc.err # "none" THEN acc
    ELSE LET r == MuxOf(ic, routing_cells[k], routing_cells)
         IN  MuxLoop([err |-> r.err, muxes |-> acc.muxes \o r.mux], ic,
                     routing_cells, k + 1)

NoPb == [kind |-> "none", name |-> None, metadata |-> <<>>,
         child_metadata |-> <<>>, directs |-> <<>>, muxes |-> <<>>]

\* the container pb_type from the metadata gm of the children, the
\* interconnect r and the muxes mx
ContainerPb(pb, routing_cells, gm, r, mx) ==
    IF gm.err # "none" THEN [err |-> gm.err, pb |-> NoPb]
    ELSE IF r.err # "none" THEN [err |-> r.err, pb |-> NoPb]
    ELSE IF mx.err # "none" THEN [err |-> mx.err, pb |-> NoPb]
    ELSE [err |-> "none",
          pb |-> [pb EXCEPT !.kind = "container",
                            !.child_metadata = gm.written,
                            !.directs = DirectConns(r.ic,
                                                    SeqToSet(routing_cells)),
                            !.muxes = mx.muxes]]

\* make_container_pb from "Generate the mux interconnects" on
ContainerMuxes(pb, routing_cells, gm, r) ==
    ContainerPb(pb, routing_cells, gm, r,
                MuxLoop([err |-> "none", muxes |-> <<>>], r.ic, routing_cells,
                        1))

\* make_container_pb(outfile, yj, mod, mod_pname, pb_type_xml, routing,
\* children) as one computation
make_container_pb(yj, mod, incl, ch, pb) ==
    ContainerMuxes(
        pb, MemberNameList(ch.routing),
        GroupsMetadata([err |-> "none", written |-> <<>>], ch.children, incl),
        get_interconnects(yj, mod, mod.name,
                          valid_names_of(mod.name, ch.routing, ch.children)))

\* lines 1157 to 1158: the check of the metadata md after the pb_type is built
ModePbChecked(md, built) ==
    IF built.err # "none" THEN built
    ELSE IF ~sanity_check_parent_metadata(md)
    THEN [err |-> "exit_parent_metadata", pb |-> NoPb]
    ELSE built

\* lines 1145 to 1155: a container or a leaf, from the result ch of
\* get_children
ModePbBuilt(yj, mod, incl, ch, pb) ==
    IF ch.err # "none" THEN [err |-> ch.err, pb |-> NoPb]
    ELSE IF ch.routing # <<>> \/ ch.children # <<>>
    THEN make_container_pb(yj, mod, incl, ch, pb)
    ELSE [err |-> "none", pb |-> pb]

\* make_pb_type under a mode from line 1145 on, given the metadata md of the
\* module
ModePbOf(yj, mod, attrs, incl, mode_name, md) ==
    ModePbChecked(md,
                  ModePbBuilt(yj, mod, incl, ChildrenOf(attrs, mod.cells),
                              [NoPb EXCEPT !.kind = "leaf",
                                           !.name = mode_name,
                                           !.metadata = md]))

\* the pb_type built, with the entries of make_pb_type made for it: its own
\* and those of the mode builds nested in it
WithCalls(built, nested) ==
    IF nested.err # "none"
    THEN [err |-> nested.err, pb |-> NoPb, calls |-> 1 + nested.calls,
          depth |-> nested.depth]
    ELSE [err |-> built.err, pb |-> built.pb, calls |-> 1 + nested.calls,
          depth |-> nested.depth]

\* the greater of two numbers
Max(a, b) == IF a >= b THEN a ELSE b

RECURSIVE make_pb_type_of_mode(_, _, _, _, _, _, _)
RECURSIVE NestedModes(_, _, _, _, _, _, _, _)

\* the entries r of one nested mode build joined to those counted so far
NestedJoin(acc, r) ==
    [err |-> r.err, calls |-> acc.calls + r.calls,
     depth |-> Max(acc.depth, r.depth)]

\* "for mode in modes" inside a build at the given depth, from the k-th mode
\* on: the mode builds it starts
NestedModes(yj, mod, attrs, incl, mcells, depth, k, acc) ==
    IF k > Len(ModesOf(attrs)) \/ k > Len(mcells) \/ acc.err # "none"
    THEN acc
    ELSE IF Len(mcells[k]) = 0
    THEN NestedModes(yj, mod, attrs, incl, mcells, depth, k + 1, acc)
    ELSE NestedModes(
            yj, mod, attrs, incl, mcells, depth, k + 1,
            NestedJoin(acc,
                       make_pb_type_of_mode(
                            yj, [mod EXCEPT !.cells = mcells[k]], attrs, incl,
                            Strip(ModesOf(attrs)[k]), mcells, depth + 1)))

\* make_pb_type(infiles, outfile, mode_yj, mode_mod, True, mode_xml, smode,
\* select_prefix): the pb_type of a mode that has cells, built at the given
\* nesting depth; mcells are the cells of the module under each of its modes
make_pb_type_of_mode(yj, mod, attrs, incl, mode_name, mcells, depth) ==
    WithCalls(
        ModePbOf(yj, mod, attrs, incl, mode_name,
                 metadata_from_attributes(attrs, mode_name)),
        IF ExpandsModes(ModesOf(attrs), TRUE) /\ depth < MaxDepth
        THEN NestedModes(yj, mod, attrs, incl, mcells, depth, 1,
                         [err |-> "none", calls |-> 0, depth |-> depth])
        ELSE [err |-> "none", calls |-> 0, depth |-> depth])

\* the interconnect of a mode without cells, were it mode_interconnects
NoChildrenInter_ModeScoped(yj, mode_mod, smode) ==
    [err |-> "none", ic |-> mode_interconnects(mode_mod.ports, smode)]

\* "inter.update(get_interconnects(mode_yj, mode_mod, smode, [smode]))"
NoChildrenInter(yj, mode_mod, smode) ==
    get_interconnects(yj, mode_mod, smode, {smode})

\* "for (driv_cell, driv_pin), sinks in inter.items(): ... make_direct_conn"
RECURSIVE ModeDirects(_)
ModeDirects(inter) ==
    IF inter = <<>> THEN <<>>
    ELSE [k \in 1..Len(Head(inter).val) |->
            [driver |-> Head(inter).key, sink |-> Head(inter).val[k].pin,
             attr |-> Head(inter).val[k].attr]]
         \o ModeDirects(Tail(inter))

\* the name of a mode, were it not stripped
ModeNameOf_Raw(mode) == mode

\* "smode = mode.strip()"
ModeNameOf(mode) == Strip(mode)

\* lines 1111 to 1124 and 1132 to 1143: the section of a mode without cells
NoChildrenSection(smode, inter, mode_metadata) ==
    IF inter.err # "none"
    THEN [err |-> inter.err, section |-> <<>>, calls |-> 0, depth |-> 0]
    ELSE IF Len(mode_metadata) # 0
    THEN [err |-> "exit_mode_metadata", section |-> <<>>, calls |-> 0,
          depth |-> 0]
    ELSE [err |-> "none",
          section |-> <<[name |-> smode, pb_type |-> <<>>,
                         interconnect |-> ModeDirects(inter.ic)]>>,
          calls |-> 0, depth |-> 0]

\* the <mode> element, were its interconnect looked up in the whole subtree:
\* the connections join the interconnect of the pb_type of the mode
ModeElement_IntoSubtree(smode, pb, conns) ==
    [name |-> smode,
     pb_type |-> <<[pb EXCEPT !.directs = @ \o conns]>>,
     interconnect |-> <<>>]

\* lines 1132 to 1143: "mode_xml.find('interconnect')" looks among the
\* children of the <mode> element only, where the pb_type of the mode is the
\* single child, so the connections go into a new <interconnect> of the mode
ModeElement(smode, pb, conns) ==
    [name |-> smode, pb_type |-> <<pb>>, interconnect |-> conns]

\* lines 1127 to 1143: the section of a mode with cells, sub the result of
\* the recursion
ChildrenSection(smode, mod_ports, sub) ==
    IF sub.err # "none"
    THEN [err |-> sub.err, section |-> <<>>, calls |-> sub.calls,
          depth |-> sub.depth]
    ELSE [err |-> "none",
          section |-> <<ModeElement(smode, sub.pb,
                                    ModeDirects(mode_interconnects(mod_ports,
                                                                   smode)))>>,
          calls |-> sub.calls, depth |-> sub.depth]

\* the body of "for mode in modes": the exit status, the <mode> section and
\* the entries of make_pb_type made
ModeSection(yj, mode_mod, attrs, incl, smode, mcells) ==
    IF Len(mode_mod.cells) = 0
    THEN NoChildrenSection(smode, NoChildrenInter(yj, mode_mod, smode),
                           metadata_from_attributes(attrs, smode))
    ELSE ChildrenSection(smode, mode_mod.ports,
                         make_pb_type_of_mode(yj, mode_mod, attrs, incl,
                                              smode, mcells, 1))

(***************************************************************************)
(* vlog_to_model: the pruning of the registered paths                      *)
(***************************************************************************)
sDFF == <<36, 100, 102, 102>>       \* "$dff"
sAND == <<36, 97, 110, 100>>        \* "$and"

\* tmod.port_conns(name): the bits of the port
port_conns(tm, name) ==
    LET k == CHOOSE x \in 1..Len(tm.ports) : tm.ports[x].name = name
    IN  tm.ports[k].bits

\* tmod.cell_conn_list(cell, "D") and tmod.cell_conn_list(cell, "Q")
cell_conn_list(cell, pin) == IF pin = "D" THEN cell.D ELSE cell.Q

\* is_registered_path(tmod, pin, pout)
is_registered_path(tm, pin, pout) ==
    \E k \in 1..Len(tm.all_cells) :
        /\ tm.all_cells[k].ctype = sDFF
        /\ port_conns(tm, pin) = cell_conn_list(tm.all_cells[k], "D")
        /\ port_conns(tm, pout) = cell_conn_list(tm.all_cells[k], "Q")

\* list.remove(x): l without the first item equal to x
ListRemove(l, x) ==
    LET k == CHOOSE y \in 1..Len(l) :
                l[y] = x /\ \A z \in 1..(y - 1) : l[z] # x
    IN  SubSeq(l, 1, k - 1) \o SubSeq(l, k + 1, Len(l))

\* "for sink in sinks: if is_registered_path(...): sinks.remove(sink)": the
\* iterator stands at index i (from 0) of the list it walks and changes
RECURSIVE PruneFrom(_, _, _, _)
PruneFrom(tm, name, l, i) ==
    IF i >= Len(l) THEN l
    ELSE IF is_registered_path(tm, name, l[i + 1])
    THEN PruneFrom(tm, name, ListRemove(l, l[i + 1]), i + 1)
    ELSE PruneFrom(tm, name, l, i + 1)

(***************************************************************************)
(* Inputs                                                                  *)
(***************************************************************************)
Cell(cname, ctype) ==
    [cname |-> cname, ctype |-> ctype, cattrs |-> <<>>, conns |-> <<>>]

\* sequences of at most n cells of the set S, with distinct cell names
RECURSIVE CellSeqs(_, _)
CellSeqs(S, n) ==
    IF n = 0 THEN {<<>>}
    ELSE LET shorter == CellSeqs(S, n - 1)
         IN  shorter \cup
             {Append(cs, c) : cs \in {x \in shorter : Len(x) = n - 1},
                              c \in S}

DistinctNames(cs) ==
    \A j, k \in 1..Len(cs) : j # k => cs[j].cname # cs[k].cname

RECURSIVE SeqsOver(_, _)
SeqsOver(S, n) ==
    IF n = 0 THEN {<<>>}
    ELSE LET shorter == SeqsOver(S, n - 1)
         IN  shorter \cup
             {Append(l, x) : l \in {y \in shorter : Len(y) = n - 1}, x \in S}

\* the items of the lists given to get_list_name_and_length
ListItems ==
    {Format(sI, IntToStr(k)) : k \in {0, 1, 2, 10}}
    \cup {sI \o IntToStr(0), Format(sM, IntToStr(1)),
          Format(Format(sI, IntToStr(1)), IntToStr(0)),
          Format(Format(sI, IntToStr(1)), IntToStr(1))}

\* i[0] .. i[n-1] in index order, and with i[10] moved to the front
ArrayItems(n) == [k \in 1..n |-> Format(sI, IntToStr(k - 1))]
ArrayItemsRotated(n) ==
    [k \in 1..n |-> Format(sI, IntToStr(IF k = 1 THEN 10
                                         ELSE IF k <= 11 THEN k - 2
                                         ELSE k - 1))]

GroupNames ==
    {GenName(sA, k) : k \in {0, 1, 2, 10}} \cup {sB, GenName(sM, 0)}
GroupCatalog == {Cell(n, t) : n \in GroupNames, t \in {tLUT, tFF, tMUX}}

\* a[0] .. a[n-1] of one type, in netlist order and in reverse order
ArrayCells(n, t) == [k \in 1..n |-> Cell(GenName(sA, k - 1), t)]
ArrayCellsReversed(n, t) == [k \in 1..n |-> Cell(GenName(sA, n - k), t)]

\* dicts of at most n items with distinct keys of K and values of V
RECURSIVE DictsOver(_, _, _)
DictsOver(K, V, n) ==
    IF n = 0 THEN {<<>>}
    ELSE LET shorter == DictsOver(K, V, n - 1)
         IN  shorter \cup
             {Append(d, [key |-> k, val |-> v]) :
                d \in {x \in shorter : Len(x) = n - 1},
                k \in K, v \in V}

DistinctKeys(d) == \A i, j \in 1..Len(d) : i # j => d[i].key # d[j].key

sX == <<120>>               \* "x"
sY == <<121>>               \* "y"
sP1 == <<112, 49>>          \* "p1"
sP2 == <<112, 50>>          \* "p2"
mA == <<65>>                \* the mode "A"
mB == <<66>>                \* the mode "B"
mLow == <<98>>              \* the mode "b"
sCLASS == <<67, 76, 65, 83, 83>>    \* "CLASS"
kType == <<116, 121, 112, 101>>     \* "type"

\* "<known>_<mode>"
ModeAttr(known, m) == known \o <<95>> \o m

\* attribute names given to metadata_from_attributes
AttrNames ==
    {sFASM_PREFIX, sFASM_FEATURES, sFASM_PARAMS, sCLASS,
     ModeAttr(sFASM_FEATURES, mA), ModeAttr(sFASM_FEATURES, mB),
     ModeAttr(sFASM_FEATURES, mLow), ModeAttr(sFASM_PREFIX, mA)}
ModeNames == {mA, mB, mLow}

(***************************************************************************)
(* Actions                                                                 *)
(***************************************************************************)
GetListNameAndLength ==
    /\ pc = "gl_call"
    /\ gl_ret' = get_list_name_and_length(gl_l)
    /\ pc' = "gl_done"
    /\ UNCHANGED <<err, gl_l, netlist, routing, children, interconn, directs,
                   muxes, mux_i, meta_vars, group_vars, mode_vars,
                   model_vars>>

\* make_pb_type, "routing, children = get_children(yj, mod)"
GetChildren ==
    /\ pc = "get_children"
    /\ LET st == ChildrenOf(module_attrs, cells)
       IN  /\ err' = st.err
           /\ routing' = st.routing
           /\ children' = st.children
           /\ pc' = IF st.err # "none" THEN "failed"
                    ELSE IF st.routing # <<>> \/ st.children # <<>>
                    THEN "make_container_pb" ELSE "make_leaf_pb"
    /\ UNCHANGED <<gl_l, gl_ret, netlist, interconn, directs, muxes, mux_i,
                   meta_vars, group_vars, mode_vars,
                   model_vars>>

\* the module being built and the port attributes of the cell types
Mod == [name |-> sTOP, cells |-> cells, ports |-> ports,
        net_attrs |-> net_attrs]

\* make_pb_type up to the ports: the modes and the metadata of the module
MakePbTypeBegin ==
    /\ pc = "make_pb_type"
    /\ modes' = ModesOf(module_attrs)
    /\ metadata' = metadata_from_attributes(module_attrs, None)
    /\ pc' = IF ExpandsModes(ModesOf(module_attrs), FALSE) THEN "modes"
             ELSE "get_children"
    /\ mpt_calls' = mpt_calls + 1
    /\ UNCHANGED <<err, gl_l, gl_ret, netlist, routing, children, interconn,
                   directs, muxes, mux_i, meta_vars, group_vars,
                   module_attrs, mode_cells, mode_i, mode_xml, mode_runs,
                   mpt_depth, model_vars>>

\* make_pb_type: one pass of "for mode in modes"
ModeStep ==
    /\ pc = "modes"
    /\ \E r \in {ModeSection(port_attrs,
                             [Mod EXCEPT !.cells = mode_cells[mode_i]],
                             module_attrs, incl_metadata,
                             ModeNameOf(modes[mode_i]), mode_cells)} :
          /\ mode_runs' = Append(mode_runs, ModeNameOf(modes[mode_i]))
          /\ err' = r.err
          /\ mode_xml' = mode_xml \o r.section
          /\ mode_i' = IF r.err # "none" THEN mode_i ELSE mode_i + 1
          /\ mpt_calls' = mpt_calls + r.calls
          /\ mpt_depth' = Max(mpt_depth, r.depth)
          /\ pc' = IF r.err # "none" THEN "failed"
                   ELSE IF mode_i = Len(modes) THEN "modes_done" ELSE "modes"
    /\ UNCHANGED <<gl_l, gl_ret, netlist, routing, children, interconn,
                   directs, muxes, mux_i, meta_vars, group_vars,
                   module_attrs, mode_cells, modes, metadata,
                   model_vars>>

\* make_container_pb: the child pb_types and their metadata
ContainerMetadata ==
    /\ pc = "make_container_pb"
    /\ \E r \in {GroupsMetadata([err |-> "none", written |-> <<>>], children,
                                incl_metadata)} :
          /\ err' = r.err
          /\ child_metadata' = r.written
          /\ pc' = IF r.err # "none" THEN "failed" ELSE "interconnect"
    /\ UNCHANGED <<gl_l, gl_ret, netlist, routing, children, interconn,
                   directs, muxes, mux_i, meta_vars, incl_metadata, mode_vars,
                   model_vars>>

\* make_pb_type: the check and the writing of the metadata of the module
MakePbTypeEnd ==
    /\ pc \in {"done", "make_leaf_pb", "modes_done"}
    /\ err' = IF sanity_check_parent_metadata(metadata) THEN "none"
              ELSE "exit_parent_metadata"
    /\ pc' = IF sanity_check_parent_metadata(metadata) THEN "returned"
             ELSE "failed"
    /\ UNCHANGED <<gl_l, gl_ret, netlist, routing, children, interconn,
                   directs, muxes, mux_i, meta_vars, group_vars, mode_vars,
                   model_vars>>

\* make_container_pb: valid_names, get_interconnects and the direct
\* connections
ContainerInterconnect ==
    /\ pc = "interconnect"
    /\ LET routing_cells == MemberNameList(routing)
           r == get_interconnects(port_attrs, Mod, Mod.name,
                                  valid_names_of(Mod.name, routing, children))
       IN  /\ err' = r.err
           /\ interconn' = r.ic
           /\ directs' = IF r.err # "none" THEN <<>>
                         ELSE DirectConns(r.ic, SeqToSet(routing_cells))
           /\ pc' = IF r.err # "none" THEN "failed"
                    ELSE IF routing_cells = <<>> THEN "done" ELSE "mux"
    /\ UNCHANGED <<gl_l, gl_ret, netlist, routing, children, muxes, mux_i,
                   meta_vars, group_vars, mode_vars,
                   model_vars>>

\* make_container_pb: one pass of "for mux_cell in routing_cells"
ContainerMux ==
    /\ pc = "mux"
    /\ LET routing_cells == MemberNameList(routing)
           r == MuxOf(interconn, routing_cells[mux_i], routing_cells)
       IN  /\ err' = r.err
           /\ muxes' = muxes \o r.mux
           /\ mux_i' = mux_i + 1
           /\ pc' = IF r.err # "none" THEN "failed"
                    ELSE IF mux_i = Len(routing_cells) THEN "done" ELSE "mux"
    /\ UNCHANGED <<gl_l, gl_ret, netlist, routing, children, interconn,
                   directs, meta_vars, group_vars, mode_vars,
                   model_vars>>

\* vlog_to_model: "Removes comb sinks if path from in to out goes through a
\* dff"
PruneRegistered ==
    /\ pc = "prune"
    /\ comb_sinks' = PruneFrom(tmod, sink_port, comb_sinks, 0)
    /\ pc' = "pruned"
    /\ UNCHANGED <<err, gl_l, gl_ret, netlist, routing, children, interconn,
                   directs, muxes, mux_i, meta_vars, group_vars, mode_vars,
                   tmod, sink_port>>

\* metadata_from_attributes(attributes, mode) on its own
MetadataFromAttributes ==
    /\ pc = "mfa_call"
    /\ mfa_ret' = metadata_from_attributes(mfa_attributes, mfa_mode)
    /\ pc' = "mfa_done"
    /\ UNCHANGED <<err, gl_l, gl_ret, netlist, routing, children, interconn,
                   directs, muxes, mux_i, mfa_attributes, mfa_mode,
                   um_metadata, um_new_metadata, um_concatenate_keys, um_ret,
                   group_vars, mode_vars,
                   model_vars>>

\* update_metadata(metadata, new_metadata, concatenate_keys) on its own
UpdateMetadata ==
    /\ pc = "um_call"
    /\ LET r == update_metadata(um_metadata, um_new_metadata,
                                um_concatenate_keys)
       IN  /\ um_ret' = r
           /\ err' = r.err
           /\ pc' = IF r.err # "none" THEN "failed" ELSE "um_done"
    /\ UNCHANGED <<gl_l, gl_ret, netlist, routing, children, interconn,
                   directs, muxes, mux_i, mfa_attributes, mfa_mode, mfa_ret,
                   um_metadata, um_new_metadata, um_concatenate_keys,
                   group_vars, mode_vars,
                   model_vars>>

\* what a specification leaves unused, and the results before they exist
IdleMeta ==
    /\ mfa_attributes = <<>>
    /\ mfa_mode = None
    /\ mfa_ret = <<>>
    /\ um_metadata = <<>>
    /\ um_new_metadata = <<>>
    /\ um_concatenate_keys = TupleOf({})
    /\ um_ret = [err |-> "none", metadata |-> <<>>]

IdleGroup ==
    /\ incl_metadata = <<>>
    /\ child_metadata = <<>>

IdleModel ==
    /\ tmod = [all_cells |-> <<>>, ports |-> <<>>]
    /\ sink_port = None
    /\ comb_sinks = <<>>

IdleModes ==
    /\ module_attrs = <<>>
    /\ mode_cells = <<>>
    /\ modes = <<>>
    /\ mode_i = 1
    /\ metadata = <<>>
    /\ mode_xml = <<>>
    /\ mode_runs = <<>>
    /\ mpt_calls = 0
    /\ mpt_depth = 0

Idle ==
    /\ ports = <<>>
    /\ net_attrs = [n \in 1..NumNets |-> NoAttrs]
    /\ port_attrs = [tp \in {} |-> NoAttrs]
    /\ routing = <<>>
    /\ children = <<>>
    /\ interconn = <<>>
    /\ directs = <<>>
    /\ muxes = <<>>
    /\ mux_i = 1
    /\ IdleMeta
    /\ IdleGroup
    /\ IdleModes
    /\ IdleModel

(***************************************************************************)
(* Specification of get_list_name_and_length                               *)
(***************************************************************************)
InitList ==
    /\ pc = "gl_call"
    /\ err = "none"
    /\ gl_l \in (SeqsOver(ListItems, MaxLen) \ {<<>>})
                \cup {ArrayItems(ArrayLen), ArrayItemsRotated(ArrayLen)}
    /\ gl_ret = GlTrue
    /\ cells = <<>>
    /\ Idle

NextList == GetListNameAndLength

SpecList == InitList /\ [][NextList]_vars

(***************************************************************************)
(* Specification of get_children                                           *)
(***************************************************************************)
InitChildren ==
    /\ pc = "get_children"
    /\ err = "none"
    /\ gl_l = <<>>
    /\ gl_ret = GlTrue
    /\ cells \in {cs \in CellSeqs(GroupCatalog, MaxGroupCells) :
                    cs # <<>> /\ DistinctNames(cs)}
                 \cup {ArrayCells(ArrayLen, t) : t \in {tLUT, tMUX}}
                 \cup {ArrayCellsReversed(ArrayLen, t) : t \in {tLUT, tMUX}}
    /\ Idle

NextChildren == GetChildren

SpecChildren == InitChildren /\ [][NextChildren]_vars

(***************************************************************************)
(* Specification of the container build: get_children, get_interconnects   *)
(* and the interconnect of make_container_pb                               *)
(***************************************************************************)
\* the pins of the cell types, in the order of their connections
TypePins(t) ==
    IF t = tMUX
    THEN <<[pin |-> pI0, dir |-> "input"], [pin |-> pI1, dir |-> "input"],
           [pin |-> pO, dir |-> "output"]>>
    ELSE IF t = tRT
    THEN <<[pin |-> pO, dir |-> "output"], [pin |-> pP, dir |-> "output"]>>
    ELSE <<[pin |-> pI0, dir |-> "input"], [pin |-> pO, dir |-> "output"]>>

\* a cell with each of its pins on any net
Wired(c) ==
    LET pins == TypePins(c.ctype)
    IN  {[c EXCEPT !.conns = [k \in 1..Len(pins) |->
                                [pin |-> pins[k].pin, dir |-> pins[k].dir,
                                 net |-> f[k]]]] :
            f \in [1..Len(pins) -> 1..NumNets]}

RECURSIVE Wirings(_)
Wirings(cs) ==
    IF cs = <<>> THEN {<<>>}
    ELSE {<<h>> \o t : h \in Wired(Head(cs)), t \in Wirings(Tail(cs))}

MainCatalog ==
    {Cell(sA, tLUT), Cell(sM, tMUX), Cell(sR, tRT), Cell(GenName(sM, 0), tRT)}

\* input port A on net 1, output port Z on net z
MainPorts(z) ==
    <<[name |-> pA, width |-> 1, bits |-> <<1>>, iodir |-> "input"],
      [name |-> pZ, width |-> 1, bits |-> <<z>>, iodir |-> "output"]>>

MainNetAttrs ==
    [n \in 1..NumNets |->
        IF n = 1 THEN [k \in {"src"} |-> "top.v:1"]
        ELSE IF n = 2 THEN [k \in {"pack"} |-> "p1"]
        ELSE NoAttrs]

MainPortAttrs ==
    [tp \in {<<tLUT, pO>>} |-> [k \in {"pack", "src"} |->
                                    IF k = "pack" THEN "p2" ELSE "lut.v:1"]]

Init ==
    /\ pc = "get_children"
    /\ err = "none"
    /\ gl_l = <<>>
    /\ gl_ret = GlTrue
    /\ cells \in UNION {Wirings(cs) :
                    cs \in {x \in CellSeqs(MainCatalog, MaxCells) :
                                x # <<>> /\ DistinctNames(x)}}
    /\ \E z \in 1..NumNets : ports = MainPorts(z)
    /\ net_attrs = MainNetAttrs
    /\ port_attrs = MainPortAttrs
    /\ routing = <<>>
    /\ children = <<>>
    /\ interconn = <<>>
    /\ directs = <<>>
    /\ muxes = <<>>
    /\ mux_i = 1
    /\ IdleMeta
    /\ IdleGroup
    /\ IdleModes
    /\ IdleModel

Next ==
    GetChildren \/ ContainerMetadata \/ ContainerInterconnect \/ ContainerMux

Spec == Init /\ [][Next]_vars

(***************************************************************************)
(* Specification of the attributes of the edges: one wiring, every         *)
(* placement of an attribute on the ports and the nets                     *)
(***************************************************************************)
AttrChoices ==
    {[k \in {"src"} |-> "f.v:1"],
     [k \in {"pack", "src"} |-> IF k = "pack" THEN "p1" ELSE "f.v:2"],
     [k \in {"pack"} |-> "p2"]}

\* A -> first.I0, first.O -> second.I0, second.O -> Z
ChainCells(first, second) ==
    <<[Cell(first, tLUT) EXCEPT !.conns =
        <<[pin |-> pI0, dir |-> "input", net |-> 1],
          [pin |-> pO, dir |-> "output", net |-> 2]>>],
      [Cell(second, tFF) EXCEPT !.conns =
        <<[pin |-> pI0, dir |-> "input", net |-> 2],
          [pin |-> pO, dir |-> "output", net |-> 3]>>]>>

ChainPorts == {<<tLUT, pI0>>, <<tLUT, pO>>, <<tFF, pI0>>, <<tFF, pO>>}

InitAttrs ==
    /\ pc = "get_children"
    /\ err = "none"
    /\ gl_l = <<>>
    /\ gl_ret = GlTrue
    /\ cells \in {ChainCells(sA, sB), ChainCells(sA, GenName(sB, 0)),
                  ChainCells(GenName(sA, 0), sB)}
    /\ ports = MainPorts(3)
    /\ net_attrs \in [1..NumNets -> AttrChoices]
    /\ port_attrs \in [ChainPorts -> AttrChoices]
    /\ routing = <<>>
    /\ children = <<>>
    /\ interconn = <<>>
    /\ directs = <<>>
    /\ muxes = <<>>
    /\ mux_i = 1
    /\ IdleMeta
    /\ IdleGroup
    /\ IdleModes
    /\ IdleModel

NextAttrs == GetChildren \/ ContainerMetadata \/ ContainerInterconnect

SpecAttrs == InitAttrs /\ [][NextAttrs]_vars

(***************************************************************************)
(* Specification of get_interconnects alone: no cell, one cell or two       *)
(* cells under own ports of width 1 or 2                                    *)
(***************************************************************************)
\* the own ports: input A and output Z, each of one or two bits on any nets
WidePorts ==
    {<<[name |-> pA, width |-> Len(a), bits |-> a, iodir |-> "input"],
       [name |-> pZ, width |-> Len(z), bits |-> z, iodir |-> "output"]>> :
        a \in SeqsOver(1..NumNets, 2) \ {<<>>},
        z \in SeqsOver(1..NumNets, 2) \ {<<>>}}

InitResolve ==
    /\ pc = "get_interconnects"
    /\ err = "none"
    /\ gl_l = <<>>
    /\ gl_ret = GlTrue
    /\ cells \in {<<>>} \cup Wirings(<<Cell(sA, tLUT)>>)
                 \cup Wirings(<<Cell(sB, tFF), Cell(sA, tLUT)>>)
    /\ ports \in WidePorts
    /\ net_attrs = MainNetAttrs
    /\ port_attrs = MainPortAttrs
    /\ routing = <<>>
    /\ children = <<>>
    /\ interconn = <<>>
    /\ directs = <<>>
    /\ muxes = <<>>
    /\ mux_i = 1
    /\ IdleMeta
    /\ IdleGroup
    /\ IdleModes
    /\ IdleModel

\* the names the caller allows: the module and the short names of its cells
CellNames(cs) == {strip_name(cs[c].cname, TRUE) : c \in 1..Len(cs)}

\* "interconn = get_interconnects(yj, mod, mod_pname, valid_names)"
GetInterconnects ==
    /\ pc = "get_interconnects"
    /\ LET r == get_interconnects(port_attrs, Mod, Mod.name,
                                  {Mod.name} \cup CellNames(cells))
       IN  /\ err' = r.err
           /\ interconn' = r.ic
           /\ pc' = IF r.err # "none" THEN "failed" ELSE "resolved"
    /\ UNCHANGED <<gl_l, gl_ret, netlist, routing, children, directs, muxes,
                   mux_i, meta_vars, group_vars, mode_vars,
                   model_vars>>

NextResolve == GetInterconnects

SpecResolve == InitResolve /\ [][NextResolve]_vars

(***************************************************************************)
(* Specification of metadata_from_attributes and update_metadata            *)
(***************************************************************************)
MaxAttrs == 2       \* most attributes of a dict given to the two functions

InitMeta ==
    /\ err = "none"
    /\ gl_l = <<>>
    /\ gl_ret = GlTrue
    /\ cells = <<>>
    /\ ports = <<>>
    /\ net_attrs = [n \in 1..NumNets |-> NoAttrs]
    /\ port_attrs = [tp \in {} |-> NoAttrs]
    /\ routing = <<>>
    /\ children = <<>>
    /\ interconn = <<>>
    /\ directs = <<>>
    /\ muxes = <<>>
    /\ mux_i = 1
    /\ \/ /\ pc = "mfa_call"
          /\ mfa_attributes \in
                {d \in DictsOver(AttrNames, {sX, sY}, MaxAttrs) :
                    DistinctKeys(d)}
          /\ mfa_mode \in {None} \cup ModeNames
          /\ mfa_ret = <<>>
          /\ um_metadata = <<>>
          /\ um_new_metadata = <<>>
          /\ um_concatenate_keys = TupleOf({})
       \/ /\ pc = "um_call"
          /\ mfa_attributes = <<>>
          /\ mfa_mode = None
          /\ mfa_ret = <<>>
          /\ um_metadata \in
                {d \in DictsOver({kFasmPrefix, kFasmFeatures, kType},
                                 {sP1, sP2}, MaxAttrs) : DistinctKeys(d)}
          /\ um_new_metadata \in
                {d \in DictsOver({kFasmPrefix, kFasmFeatures, kType},
                                 {sP1, sP2}, MaxAttrs) : DistinctKeys(d)}
          /\ um_concatenate_keys \in
                {TupleOf({}), TupleOf({kFasmPrefix}), StrOf(kFasmPrefix)}
    /\ um_ret = [err |-> "none", metadata |-> <<>>]
    /\ IdleGroup
    /\ IdleModes
    /\ IdleModel

NextMeta == MetadataFromAttributes \/ UpdateMetadata

SpecMeta == InitMeta /\ [][NextMeta]_vars

(***************************************************************************)
(* Specification of the build of a module without modes whose cells are    *)
(* one generate array with attributes: make_pb_type, get_children and      *)
(* make_container_pb                                                       *)
(***************************************************************************)
MaxMembers == 3     \* most cells of the generate array

vP == <<112>>                       \* "p"
vPQ == <<112, 59, 113>>             \* "p;q"
vQP == <<113, 59, 112>>             \* "q;p"
vPQR == <<112, 59, 113, 59, 114>>   \* "p;q;r"
vF == <<102>>                       \* "f"

\* a dict of one item
Dict1(k, v) == <<[key |-> k, val |-> v]>>

\* the attributes of a cell instance
CellAttrChoices ==
    {<<>>, Dict1(sFASM_PREFIX, vP), Dict1(sFASM_PREFIX, vPQ),
     Dict1(sFASM_PREFIX, vQP), Dict1(sFASM_PREFIX, vPQR),
     Dict1(sFASM_FEATURES, vF), Dict1(sFASM_PARAMS, sX),
     Dict1(sFASM_PREFIX, vPQ) \o Dict1(sFASM_FEATURES, vF)}

\* a[0] .. a[n-1] with the given attributes, every input on the net of port
\* A and every output on the net of port Z
GroupArray(attrs) ==
    [k \in 1..Len(attrs) |->
        [Cell(GenName(sA, k - 1), tLUT) EXCEPT
            !.cattrs = attrs[k],
            !.conns = <<[pin |-> pI0, dir |-> "input", net |-> 1],
                        [pin |-> pO, dir |-> "output", net |-> 2]>>]]

ReversedCells(cs) == [k \in 1..Len(cs) |-> cs[Len(cs) + 1 - k]]

InitGroup ==
    /\ pc = "make_pb_type"
    /\ err = "none"
    /\ gl_l = <<>>
    /\ gl_ret = GlTrue
    /\ \E attrs \in SeqsOver(CellAttrChoices, MaxMembers) \ {<<>>} :
          cells \in {GroupArray(attrs), ReversedCells(GroupArray(attrs))}
    /\ ports = MainPorts(2)
    /\ net_attrs = [n \in 1..NumNets |-> NoAttrs]
    /\ port_attrs = [tp \in {} |-> NoAttrs]
    /\ routing = <<>>
    /\ children = <<>>
    /\ interconn = <<>>
    /\ directs = <<>>
    /\ muxes = <<>>
    /\ mux_i = 1
    /\ IdleMeta
    /\ incl_metadata \in {<<>>, Dict1(tLUT, Dict1(kFasmFeatures, sX))}
    /\ child_metadata = <<>>
    /\ module_attrs \in {<<>>, Dict1(sFASM_PREFIX, vP),
                         Dict1(sFASM_FEATURES, vF)}
    /\ mode_cells = <<>>
    /\ modes = <<>>
    /\ mode_i = 1
    /\ metadata = <<>>
    /\ mode_xml = <<>>
    /\ mode_runs = <<>>
    /\ mpt_calls = 0
    /\ mpt_depth = 0
    /\ IdleModel

NextGroup ==
    \/ MakePbTypeBegin
    \/ GetChildren
    \/ ContainerMetadata
    \/ ContainerInterconnect
    \/ MakePbTypeEnd

SpecGroup == InitGroup /\ [][NextGroup]_vars

(***************************************************************************)
(* Specification of the build of a module with modes                       *)
(***************************************************************************)
MaxModes == 2       \* most names in the MODES attribute

\* the names as they are written between the semicolons of MODES
ModeItems == {mA, <<32>> \o mB, mLow}

\* ";".join(l)
RECURSIVE JoinSemicolon(_)
JoinSemicolon(l) ==
    IF Len(l) = 1 THEN l[1] ELSE l[1] \o <<59>> \o JoinSemicolon(Tail(l))

\* the cells of the module under a mode: none, one cell between the ports,
\* one cell with a parameter association
ModeCellChoices ==
    {<<>>, GroupArray(<<<<>>>>), GroupArray(<<Dict1(sFASM_PARAMS, sX)>>)}

\* the attributes of the module besides MODES
ModuleAttrChoices ==
    {<<>>, Dict1(ModeAttr(sFASM_FEATURES, mA), sX),
     Dict1(ModeAttr(sFASM_FEATURES, mB), sX),
     Dict1(ModeAttr(sFASM_FEATURES, mLow), sX),
     Dict1(sFASM_FEATURES, vF), Dict1(sFASM_PREFIX, vP),
     Dict1(sBlackbox, 1), Dict1(sWhitebox, 1)}

\* the own ports: A straight to Z, A and Z apart, two bits each
ModePortChoices ==
    {MainPorts(1), MainPorts(2),
     <<[name |-> pA, width |-> 2, bits |-> <<1, 2>>, iodir |-> "input"],
       [name |-> pZ, width |-> 2, bits |-> <<2, 3>>, iodir |-> "output"]>>}

InitModes ==
    /\ pc = "make_pb_type"
    /\ err = "none"
    /\ gl_l = <<>>
    /\ gl_ret = GlTrue
    /\ ports \in ModePortChoices
    /\ net_attrs = [n \in 1..NumNets |-> NoAttrs]
    /\ port_attrs = [tp \in {} |-> NoAttrs]
    /\ routing = <<>>
    /\ children = <<>>
    /\ interconn = <<>>
    /\ directs = <<>>
    /\ muxes = <<>>
    /\ mux_i = 1
    /\ IdleMeta
    /\ IdleGroup
    /\ \E items \in SeqsOver(ModeItems, MaxModes) :
          IF items = <<>>
          THEN /\ module_attrs \in ModuleAttrChoices
               /\ mode_cells = <<>>
               /\ cells \in ModeCellChoices
          ELSE /\ \E other \in ModuleAttrChoices :
                     module_attrs
                        = Dict1(sMODES, JoinSemicolon(items)) \o other
               /\ mode_cells \in [1..Len(items) -> ModeCellChoices]
               /\ cells = <<>>
    /\ modes = <<>>
    /\ mode_i = 1
    /\ metadata = <<>>
    /\ mode_xml = <<>>
    /\ mode_runs = <<>>
    /\ mpt_calls = 0
    /\ mpt_depth = 0
    /\ IdleModel

NextModes ==
    \/ MakePbTypeBegin
    \/ ModeStep
    \/ GetChildren
    \/ ContainerMetadata
    \/ ContainerInterconnect
    \/ MakePbTypeEnd

SpecModes == InitModes /\ [][NextModes]_vars

(***************************************************************************)
(* Specification of the pruning of the combinational sinks                 *)
(***************************************************************************)
MaxSinks == 3       \* most combinational sinks of the port

oX == <<88>>        \* the output ports X, Y, Z, on the nets 2, 3 and 4
oY == <<89>>
OutNames == <<oX, oY, pZ>>

ModelPorts ==
    <<[name |-> pA, width |-> 1, bits |-> <<1>>, iodir |-> "input"]>>
    \o [k \in 1..Len(OutNames) |->
            [name |-> OutNames[k], width |-> 1, bits |-> <<k + 1>>,
             iodir |-> "output"]]

\* what drives an output: a flip-flop fed by the port A, a flip-flop fed by
\* another net, a gate fed by the port A, or no cell
DriverKinds == {"dff", "other_dff", "and", "none"}

DriverCell(kind, k) ==
    IF kind = "none" THEN <<>>
    ELSE <<[cname |-> OutNames[k],
            ctype |-> IF kind = "and" THEN sAND ELSE sDFF,
            D |-> IF kind = "other_dff" THEN <<5>> ELSE <<1>>,
            Q |-> <<k + 1>>]>>

RECURSIVE DriverCells(_, _)
DriverCells(kinds, k) ==
    IF k > Len(OutNames) THEN <<>>
    ELSE DriverCell(kinds[k], k) \o DriverCells(kinds, k + 1)

InitModel ==
    /\ pc = "prune"
    /\ err = "none"
    /\ gl_l = <<>>
    /\ gl_ret = GlTrue
    /\ cells = <<>>
    /\ ports = <<>>
    /\ net_attrs = [n \in 1..NumNets |-> NoAttrs]
    /\ port_attrs = [tp \in {} |-> NoAttrs]
    /\ routing = <<>>
    /\ children = <<>>
    /\ interconn = <<>>
    /\ directs = <<>>
    /\ muxes = <<>>
    /\ mux_i = 1
    /\ IdleMeta
    /\ IdleGroup
    /\ IdleModes
    /\ \E kinds \in [1..Len(OutNames) -> DriverKinds] :
          tmod = [all_cells |-> DriverCells(kinds, 1), ports |-> ModelPorts]
    /\ sink_port = pA
    /\ comb_sinks \in {l \in SeqsOver(SeqToSet(OutNames), MaxSinks) :
                    \A a, b \in 1..Len(l) : a # b => l[a] # l[b]}

NextModel == PruneRegistered

SpecModel == InitModel /\ [][NextModel]_vars

(***************************************************************************)
(* Properties of get_list_name_and_length                                  *)
(***************************************************************************)
\* the prefixes p for which l is p[0] .. p[N-1], each once, in any order
ArrayPrefixes(l) ==
    {p \in {SubSeq(l[1], 1, j) : j \in 0..Len(l[1])} :
        /\ {l[k] : k \in 1..Len(l)}
             = {Format(p, IntToStr(i)) : i \in 0..(Len(l) - 1)}
        /\ \A j, k \in 1..Len(l) : j # k => l[j] # l[k]}

\* C3: get_list_name_and_length returns (prefix, N) for every non-empty list
\* whose items are prefix[0] .. prefix[N-1], each once, in whatever order they
\* are listed, and raises AssertionError for every other non-empty list
C3_AnyOrderAccepted ==
    pc = "gl_done" =>
        /\ \A p \in ArrayPrefixes(gl_l) :
             gl_ret = [kind |-> "tuple", name |-> p, n |-> Len(gl_l)]
        /\ ArrayPrefixes(gl_l) = {} => gl_ret.kind = "AssertionError"

\* items of equal length are listed in increasing index order
EqualLengthsInOrder(l, p) ==
    \A j, k \in 1..Len(l) :
        (j < k /\ Len(l[j]) = Len(l[k])) =>
            \E x, y \in 0..(Len(l) - 1) :
                /\ x < y
                /\ l[j] = Format(p, IntToStr(x))
                /\ l[k] = Format(p, IntToStr(y))

\* C3 (amended): get_list_name_and_length returns (prefix, N) for every
\* non-empty list whose items are prefix[0] .. prefix[N-1], each once, with
\* the items of equal length listed in increasing index order, and raises
\* AssertionError for every other non-empty list
C3_OrderedByLengthAccepted ==
    pc = "gl_done" =>
        /\ \A p \in ArrayPrefixes(gl_l) :
             EqualLengthsInOrder(gl_l, p)
             => gl_ret = [kind |-> "tuple", name |-> p, n |-> Len(gl_l)]
        /\ (\A p \in ArrayPrefixes(gl_l) : ~EqualLengthsInOrder(gl_l, p))
             => gl_ret.kind = "AssertionError"

\* i[10] listed before i[0] .. i[9], accepted
C3_Witness ==
    /\ pc = "gl_done"
    /\ gl_l = ArrayItemsRotated(ArrayLen)
    /\ gl_ret = [kind |-> "tuple", name |-> sI, n |-> ArrayLen]

(***************************************************************************)
(* Properties of get_children                                              *)
(***************************************************************************)
ChildrenReturned == pc = "make_container_pb"

\* the member lists of both dicts
GroupsOf(d) == {[prefix |-> d[j].key, members |-> d[j].val.members] :
                    j \in 1..Len(d)}
AllGroups == GroupsOf(routing) \cup GroupsOf(children)

MemberNames(g) == {g.members[k].name : k \in 1..Len(g.members)}

Contiguous(g) ==
    MemberNames(g) = {Format(g.prefix, IntToStr(i)) :
                        i \in 0..(Len(g.members) - 1)}

\* C2: get_children fails whenever a group with more than one member has
\* indices that are not exactly 0..count-1, and succeeds for a[0], a[1]
C2_NonContiguousFails ==
    /\ ChildrenReturned =>
         \A g \in AllGroups : Len(g.members) > 1 => Contiguous(g)
    /\ (pc # "get_children" /\ cells = ArrayCells(2, tLUT)) => err = "none"

\* C4: after get_children succeeds the members of every group are in
\* increasing numeric index order
C4_IndexOrder ==
    ChildrenReturned =>
        \A g \in AllGroups : \A j, k \in 1..Len(g.members) :
            \A x, y \in 0..ArrayLen :
                (/\ j < k
                 /\ g.members[j].name = Format(g.prefix, IntToStr(x))
                 /\ g.members[k].name = Format(g.prefix, IntToStr(y)))
                => x < y

\* the places (dict, prefix, position) where a short name is a member
PlacesIn(tag, d, name) ==
    UNION {{<<tag, d[j].key, k>> :
                k \in {i \in 1..Len(d[j].val.members) :
                        d[j].val.members[i].name = name}} :
           j \in 1..Len(d)}
Places(name) ==
    PlacesIn("routing", routing, name) \cup PlacesIn("children", children, name)

\* C5: after get_children every cell is a member of exactly one group: of the
\* routing group of its prefix when its type is routing, of the children
\* group of its prefix otherwise
C5_EveryCellInOneGroup ==
    ChildrenReturned =>
        \A c \in 1..Len(cells) :
            LET pl == Places(strip_name(cells[c].cname, TRUE))
            IN  /\ Cardinality(pl) = 1
                /\ \A x \in pl :
                     /\ x[1] = IF CLASS(cells[c].ctype) = "routing"
                               THEN "routing" ELSE "children"
                     /\ x[2] = strip_name(cells[c].cname, FALSE)

(***************************************************************************)
(* Properties of get_interconnects and of the interconnect of              *)
(* make_container_pb                                                       *)
(***************************************************************************)
Resolved == pc \in {"mux", "done"}

\* the resolved edges, by their position in interconn
EdgePos == {e \in (1..Len(interconn)) \X (1..(Len(cells) * 3 + Len(ports))) :
                e[2] <= Len(interconn[e[1]].val)}
EdgeDriver(e) == interconn[e[1]].key
EdgeSink(e) == interconn[e[1]].val[e[2]].pin

\* the pins on a net, read off the netlist
InputPinsOfCells ==
    {<<c, k>> \in (1..Len(cells)) \X (1..3) :
        k <= Len(cells[c].conns) /\ cells[c].conns[k].dir = "input"}
OutputPinsOfCells ==
    {<<c, k>> \in (1..Len(cells)) \X (1..3) :
        k <= Len(cells[c].conns) /\ cells[c].conns[k].dir = "output"}
NetOf(cp) == cells[cp[1]].conns[cp[2]].net
PinOf(cp) == <<strip_name(cells[cp[1]].cname, TRUE), cells[cp[1]].conns[cp[2]].pin>>
PortsOn(iodir, net) ==
    {p \in 1..Len(ports) : ports[p].iodir = iodir /\ ports[p].bits = <<net>>}
DriverPinsOf(net) ==
    {<<None, ports[p].name>> : p \in PortsOn("input", net)}
    \cup {PinOf(cp) : cp \in {x \in OutputPinsOfCells : NetOf(x) = net}}
SinkPinsOf(net) ==
    {<<None, ports[p].name>> : p \in PortsOn("output", net)}
    \cup {PinOf(cp) : cp \in {x \in InputPinsOfCells : NetOf(x) = net}}

\* the short names of the cells whose type is routing
RoutingNames ==
    {strip_name(cells[c].cname, TRUE) :
        c \in {x \in 1..Len(cells) : CLASS(cells[x].ctype) = "routing"}}

\* C1: when get_interconnects succeeds the net of every input pin of every
\* cell has exactly one driver and the pin is the sink of exactly one edge,
\* the edge from that driver; it fails with "no driver" only for a pin
\* without driver and with "multiple drivers" only for a pin with several
C1_OneDriverOneEdge ==
    /\ Resolved =>
         \A cp \in InputPinsOfCells :
            /\ Cardinality(DriverPinsOf(NetOf(cp))) = 1
            /\ Cardinality({e \in EdgePos : EdgeSink(e) = PinOf(cp)}) = 1
            /\ \A e \in EdgePos :
                 EdgeSink(e) = PinOf(cp)
                 => EdgeDriver(e) \in DriverPinsOf(NetOf(cp))
    /\ err = "assert_no_driver" =>
         \E cp \in InputPinsOfCells : DriverPinsOf(NetOf(cp)) = {}
    /\ err = "assert_multiple_drivers" =>
         \E cp \in InputPinsOfCells : Cardinality(DriverPinsOf(NetOf(cp))) > 1

C1_Witness ==
    /\ pc = "done"
    /\ Len(cells) = 2
    /\ Cardinality(InputPinsOfCells) = 3
    /\ Cardinality(EdgePos) >= 4

\* the (output pin, sink) pairs of a cell, read off the netlist
DrivenBy(name) ==
    {<<PinOf(cp), s>> : cp \in {x \in OutputPinsOfCells : PinOf(x)[1] = name},
                        s \in UNION {SinkPinsOf(n) : n \in 1..NumNets}}
    \cap UNION {{<<PinOf(cp), s>> : s \in SinkPinsOf(NetOf(cp))} :
                    cp \in OutputPinsOfCells}

MuxesNamed(name) == {i \in 1..Len(muxes) : muxes[i].name = name}

\* C6: every emitted mux has exactly one output pin with exactly one sink,
\* and in a successful build every routing instance drives exactly one sink
\* from exactly one output pin and has exactly one mux
C6_MuxOneOutputOneSink ==
    /\ \A i \in 1..Len(muxes) :
         /\ Len(muxes[i].outputs) = 1
         /\ Len(muxes[i].outputs[1].sinks) = 1
    /\ pc = "done" =>
         \A name \in RoutingNames :
            /\ Cardinality(DrivenBy(name)) = 1
            /\ Cardinality(MuxesNamed(name)) = 1

C6_Witness ==
    /\ pc = "done"
    /\ \E i \in 1..Len(muxes) : muxes[i].name = sR

\* C7: in a successful build no routing instance drives a pin of a routing
\* instance: no resolved edge joins two routing instances and no emitted mux
\* has a routing instance as the driver of an input or as the sink of its
\* output
C7_NoRoutingChain ==
    pc = "done" =>
        /\ \A name \in RoutingNames : \A d \in DrivenBy(name) :
             d[2][1] \notin RoutingNames
        /\ \A e \in EdgePos :
             ~(EdgeDriver(e)[1] \in RoutingNames
               /\ EdgeSink(e)[1] \in RoutingNames)
        /\ \A i \in 1..Len(muxes) :
             /\ \A k \in 1..Len(muxes[i].inputs) :
                  muxes[i].inputs[k].val[1] \notin RoutingNames
             /\ \A o \in 1..Len(muxes[i].outputs) :
                  \A k \in 1..Len(muxes[i].outputs[o].sinks) :
                     muxes[i].outputs[o].sinks[k][1] \notin RoutingNames

\* a build stopped because a mux drives an input of another mux
C7_Witness ==
    /\ pc = "failed"
    /\ err \in {"assert_mux_drives_mux", "assert_mux_drives_mux_input"}
    /\ \E name \in RoutingNames : \E d \in DrivenBy(name) :
         d[2][1] \in RoutingNames /\ d[2][1] # name

\* the edges whose sink is an input pin of a routing instance
EdgesInto(pin) == {e \in EdgePos : EdgeSink(e) = pin}

\* C8: the build fails while collecting the inputs of a mux exactly when an
\* input pin of that mux is assigned a driver a second time
C8_FailsOnlyOnSecondDriver ==
    err = "assert_mux_pin_already_driven" =>
        \E e \in EdgePos :
            /\ EdgeSink(e)[1] \in RoutingNames
            /\ Cardinality(EdgesInto(EdgeSink(e))) >= 2

Normalized(pin) == <<normalize_pb_name(pin[1]), pin[2]>>

DirectsOf(e) ==
    {i \in 1..Len(directs) :
        /\ directs[i].driver = Normalized(EdgeDriver(e))
        /\ directs[i].sink = Normalized(EdgeSink(e))}

\* the places (mux, input) and (mux, output, sink) where an edge is emitted
MuxInputsOf(e) ==
    {x \in (1..Len(muxes)) \X (1..2) :
        /\ x[2] <= Len(muxes[x[1]].inputs)
        /\ muxes[x[1]].name = EdgeSink(e)[1]
        /\ muxes[x[1]].inputs[x[2]].key = EdgeSink(e)[2]
        /\ muxes[x[1]].inputs[x[2]].val = EdgeDriver(e)}
MuxOutputsOf(e) ==
    {i \in 1..Len(muxes) :
        /\ muxes[i].name = EdgeDriver(e)[1]
        /\ muxes[i].outputs[1].pin = EdgeDriver(e)[2]
        /\ muxes[i].outputs[1].sinks = <<EdgeSink(e)>>}

RECURSIVE SumLen(_)
SumLen(l) == IF l = <<>> THEN 0 ELSE Len(Head(l)) + SumLen(Tail(l))

Emitted ==
    Len(directs)
    + SumLen([i \in 1..Len(muxes) |-> muxes[i].inputs])
    + SumLen([i \in 1..Len(muxes) |-> muxes[i].outputs[1].sinks])

\* C9: in a successful build every resolved edge is emitted exactly once, as
\* a direct connection when neither end is a routing instance and otherwise
\* as an input or the output of the mux of that routing instance; nothing
\* else is emitted and no direct connection ends at a routing instance
C9_EveryEdgeOnce ==
    pc = "done" =>
        /\ \A e \in EdgePos :
             IF EdgeDriver(e)[1] \notin RoutingNames
                /\ EdgeSink(e)[1] \notin RoutingNames
             THEN /\ Cardinality(DirectsOf(e)) = 1
                  /\ MuxInputsOf(e) = {} /\ MuxOutputsOf(e) = {}
             ELSE /\ DirectsOf(e) = {}
                  /\ Cardinality(MuxInputsOf(e)) + Cardinality(MuxOutputsOf(e))
                        = 1
        /\ Emitted = Cardinality(EdgePos)
        /\ \A i \in 1..Len(directs) :
             /\ directs[i].driver[1] \notin
                    {normalize_pb_name(n) : n \in RoutingNames}
             /\ directs[i].sink[1] \notin
                    {normalize_pb_name(n) : n \in RoutingNames}

\* a mux with two inputs next to direct connections
C9_Witness ==
    /\ pc = "done"
    /\ \E i \in 1..Len(muxes) : Len(muxes[i].inputs) = 2
    /\ Len(directs) >= 2

(***************************************************************************)
(* Properties of the attributes of the edges                               *)
(***************************************************************************)
CellsNamed(name) ==
    {c \in 1..Len(cells) : strip_name(cells[c].cname, TRUE) = name}

\* the attributes of the declared port of a pin of a cell, without 'src'
DeclaredAttrs(pin) ==
    LET c == CHOOSE x \in CellsNamed(pin[1]) : TRUE
        a == port_attrs[<<cells[c].ctype, pin[2]>>]
    IN  [k \in DOMAIN a \ {"src"} |-> a[k]]

\* the attributes of the net of an edge, without 'src'
EdgeNetAttrs(e) ==
    LET pin == IF EdgeSink(e)[1] # None THEN EdgeSink(e) ELSE EdgeDriver(e)
        cp == CHOOSE x \in InputPinsOfCells \cup OutputPinsOfCells :
                PinOf(x) = pin
        a == net_attrs[NetOf(cp)]
    IN  [k \in DOMAIN a \ {"src"} |-> a[k]]

\* the three sources of the attributes of an edge between pins of which at
\* least one belongs to a cell
SourcesOf(e) ==
    (IF EdgeDriver(e)[1] # None THEN {DeclaredAttrs(EdgeDriver(e))} ELSE {})
    \cup (IF EdgeSink(e)[1] # None THEN {DeclaredAttrs(EdgeSink(e))} ELSE {})
    \cup {EdgeNetAttrs(e)}

CellEdges == {e \in EdgePos : EdgeDriver(e)[1] # None \/ EdgeSink(e)[1] # None}

\* C10: when an edge is resolved, a key present on more than one of the
\* driver pin's port, the sink pin's port and the net, with values that are
\* not all identical, makes the resolution fail
C10_AnyTwoSourcesConflict ==
    Resolved \/ pc = "done" =>
        \A e \in CellEdges : \A k \in {"pack"} :
            Cardinality({a[k] : a \in {x \in SourcesOf(e) : k \in DOMAIN x}})
                <= 1

\* the ports the resolver consults for an edge: the port of a pin whose owner
\* is found as a cell under the name the resolver looks up, which is the raw
\* name for the driver of an input pin and the short name otherwise
Consulted(e) ==
    LET d == EdgeDriver(e)
        s == EdgeSink(e)
        found(name) == \E c \in 1..Len(cells) : cells[c].cname = name
    IN  (IF d[1] # None /\ (s[1] # None \/ found(d[1]))
         THEN {DeclaredAttrs(d)} ELSE {})
        \cup (IF s[1] # None /\ found(s[1]) THEN {DeclaredAttrs(s)} ELSE {})

\* C10 (amended): when an edge is resolved, a key (other than 'src') that is
\* present on every port the resolver consults, with values that differ
\* between those ports or from the value of the key on the net, makes the
\* resolution fail
C10_ConsultedSourcesConflict ==
    Resolved \/ pc = "done" =>
        \A e \in CellEdges : \A k \in {"pack"} :
            (Consulted(e) # {} /\ \A a \in Consulted(e) : k \in DOMAIN a)
            => Cardinality({a[k] : a \in {x \in Consulted(e) \cup
                                            {EdgeNetAttrs(e)} :
                                            k \in DOMAIN x}}) <= 1

\* a resolution stopped by conflicting values of an attribute
C10_Witness ==
    /\ pc = "failed"
    /\ err = "ValueError"
    /\ cells = ChainCells(sA, sB)

\* the attributes stored on a resolved edge
EdgeAttrs(e) == interconn[e[1]].val[e[2]].attr

\* C11: the attributes of an accepted edge are the union of the attributes
\* of the driver pin's port, of the sink pin's port and of the net, 'src'
\* excluded: an attribute of any of the three sources is on the edge
C11_UnionOfSources ==
    Resolved =>
        \A e \in CellEdges : \A a \in SourcesOf(e) : \A k \in DOMAIN a :
            k \in DOMAIN EdgeAttrs(e) /\ EdgeAttrs(e)[k] = a[k]

\* the keys which are on every port the resolver consults for an edge
CommonKeys(e) ==
    {k \in UNION {DOMAIN a : a \in Consulted(e)} :
        \A a \in Consulted(e) : k \in DOMAIN a}

\* C11 (amended): the attributes of an accepted edge are the attributes of
\* the net together with the attributes which are on every port the resolver
\* consults for the edge, 'src' excluded, each with the value of its sources;
\* an attribute carried by only one of two consulted ports is not on the edge
C11_NetAndCommonPortAttrs ==
    Resolved =>
        \A e \in CellEdges :
            /\ DOMAIN EdgeAttrs(e) = DOMAIN EdgeNetAttrs(e) \cup CommonKeys(e)
            /\ "src" \notin DOMAIN EdgeAttrs(e)
            /\ \A k \in DOMAIN EdgeNetAttrs(e) :
                 EdgeAttrs(e)[k] = EdgeNetAttrs(e)[k]
            /\ \A k \in CommonKeys(e) : \A a \in Consulted(e) :
                 EdgeAttrs(e)[k] = a[k]

\* an edge that takes an attribute from its two ports while its net has none,
\* next to an edge whose net carries 'src'
C11_Witness ==
    /\ Resolved
    /\ \E e \in CellEdges :
         /\ Cardinality(Consulted(e)) = 1
         /\ EdgeDriver(e)[1] # None /\ EdgeSink(e)[1] # None
         /\ "pack" \in CommonKeys(e)
         /\ "pack" \notin DOMAIN EdgeNetAttrs(e)
         /\ "pack" \in DOMAIN EdgeAttrs(e)
    /\ \E c \in 1..Len(cells) : \E k \in 1..Len(cells[c].conns) :
         "src" \in DOMAIN net_attrs[cells[c].conns[k].net]

(***************************************************************************)
(* Properties of get_interconnects alone                                   *)
(***************************************************************************)
\* the bits of the own ports of one direction: (port, bit from 0)
OwnBits(iodir) ==
    {pb \in (1..Len(ports)) \X (0..1) :
        ports[pb[1]].iodir = iodir /\ pb[2] < Len(ports[pb[1]].bits)}
OwnBitNet(pb) == ports[pb[1]].bits[pb[2] + 1]
\* the name of an own bit: the port name for a port of one bit, else name[i]
OwnBitName(pb) ==
    IF Len(ports[pb[1]].bits) = 1 THEN ports[pb[1]].name
    ELSE ports[pb[1]].name \o <<91, 48 + pb[2], 93>>

\* the pairs (input bit, output bit) of own bits that carry the same net
SameNetPairs ==
    {io \in OwnBits("input") \X OwnBits("output") :
        OwnBitNet(io[1]) = OwnBitNet(io[2])}

BoundaryEdges ==
    {e \in EdgePos : EdgeDriver(e)[1] = None /\ EdgeSink(e)[1] = None}

\* C12: get_interconnects records a pass-through edge (none, input bit) ->
\* (none, output bit) with empty attributes for exactly the pairs of an own
\* input bit and an own output bit on the same net, once each; the bit of a
\* port of width 1 is named by the port and bit i of a wider port by name[i]
C12_PassthroughPairs ==
    pc = "resolved" =>
        /\ \A io \in SameNetPairs :
             Cardinality({e \in BoundaryEdges :
                            /\ EdgeDriver(e)[2] = OwnBitName(io[1])
                            /\ EdgeSink(e)[2] = OwnBitName(io[2])}) = 1
        /\ Cardinality(BoundaryEdges) = Cardinality(SameNetPairs)
        /\ \A e \in BoundaryEdges : EdgeAttrs(e) = NoAttrs

\* an input of one bit that feeds both bits of the output through
C12_Witness ==
    /\ pc = "resolved"
    /\ Len(ports[1].bits) = 1 /\ Len(ports[2].bits) = 2
    /\ Cardinality(SameNetPairs) = 2
    /\ cells # <<>>

\* the order of the sinks of a driver: boundary sinks first by pin name,
\* then owned sinks by owner and pin name
SinkNotAfter(s, t) ==
    IF s[1] = None
    THEN t[1] # None \/ s[2] = t[2] \/ StrLess(s[2], t[2])
    ELSE /\ t[1] # None
         /\ \/ StrLess(s[1], t[1])
            \/ s[1] = t[1] /\ (s[2] = t[2] \/ StrLess(s[2], t[2]))

Reverse(l) == [k \in 1..Len(l) |-> l[Len(l) + 1 - k]]

\* the cells in the other orders of visit: cells reversed, pins reversed
Visits ==
    LET rc == [c \in 1..Len(cells) |->
                    [cells[c] EXCEPT !.conns = Reverse(@)]]
    IN  {cells, Reverse(cells), rc, Reverse(rc)}

AsMapping(ic) == {<<ic[j].key, ic[j].val>> : j \in 1..Len(ic)}

QualifiedBy(attribute) ==
    {k \in 1..Len(KNOWN_FASM_ATTRS) :
        /\ Len(attribute) > Len(KNOWN_FASM_ATTRS[k]) + 1
        /\ SubSeq(attribute, 1, Len(KNOWN_FASM_ATTRS[k]) + 1)
             = KNOWN_FASM_ATTRS[k] \o <<95>>}

\* the kind and the mode qualifier an attribute name spells
Spelled(attribute) ==
    IF \E k \in 1..Len(KNOWN_FASM_ATTRS) : KNOWN_FASM_ATTRS[k] = attribute
    THEN {[kind |-> attribute, qualifier |-> None]}
    ELSE {[kind |-> KNOWN_FASM_ATTRS[k],
           qualifier |-> SubSeq(attribute, Len(KNOWN_FASM_ATTRS[k]) + 2,
                                Len(attribute))] :
            k \in QualifiedBy(attribute)}

\* C17: metadata_from_attributes keeps an attribute only if it is a
\* recognised FASM attribute whose mode qualifier, when it has one, equals
\* the mode being built; a mode-qualified attribute is ignored when another
\* mode or no mode is being built
C17_KeepsOnlyMatchingMode ==
    pc = "mfa_done" =>
        \A j \in 1..Len(mfa_ret) :
            \E i \in 1..Len(mfa_attributes) :
                \E sp \in Spelled(mfa_attributes[i].key) :
                    /\ mfa_ret[j].key = Lower(sp.kind)
                    /\ mfa_ret[j].val = mfa_attributes[i].val
                    /\ sp.qualifier = None \/ sp.qualifier = mfa_mode

AsMap(d) == {<<d[j].key, d[j].val>> : j \in 1..Len(d)}

\* the keys update_metadata was told to concatenate
Concatenable ==
    IF um_concatenate_keys.kind = "str" THEN {um_concatenate_keys.str}
    ELSE um_concatenate_keys.items

\* C19: update_metadata(a, b) adds a key only in b with b's value, turns a
\* concatenable key of both into a's value, a space, b's value, requires
\* equal values for any other key of both and fails otherwise; for disjoint
\* key sets merging b into a and a into b give the same mapping
C19_MergeRules ==
    LET a == um_metadata
        b == um_new_metadata
        r == um_ret.metadata
        both == DictKeys(a) \cap DictKeys(b)
    IN  /\ pc = "um_done" =>
              /\ DictKeys(r) = DictKeys(a) \cup DictKeys(b)
              /\ \A k \in DictKeys(b) \ DictKeys(a) :
                    DictGet(r, k) = DictGet(b, k)
              /\ \A k \in DictKeys(a) \ DictKeys(b) :
                    DictGet(r, k) = DictGet(a, k)
              /\ \A k \in both \cap Concatenable :
                    DictGet(r, k) = DictGet(a, k) \o <<32>> \o DictGet(b, k)
              /\ \A k \in both \ Concatenable :
                    DictGet(a, k) = DictGet(b, k)
                    /\ DictGet(r, k) = DictGet(a, k)
        /\ (pc = "failed" /\ err = "exit_metadata_conflict") =>
              \E k \in both \ Concatenable : DictGet(a, k) # DictGet(b, k)
        /\ (pc \in {"um_done", "failed"} /\ both = {}) =>
              /\ pc = "um_done"
              /\ LET back == update_metadata(b, a, um_concatenate_keys)
                 IN  back.err = "none" /\ AsMap(back.metadata) = AsMap(r)

\* "p1" merged with "p2" under the concatenated key gives "p1 p2"
C19_Witness ==
    /\ pc = "um_done"
    /\ um_concatenate_keys.kind = "str"
    /\ DictHas(um_metadata, kFasmPrefix)
    /\ DictHas(um_new_metadata, kFasmPrefix)
    /\ DictGet(um_ret.metadata, kFasmPrefix) = <<112, 49, 32, 112, 50>>
    /\ \E k \in DictKeys(um_new_metadata) : ~DictHas(um_metadata, k)

(***************************************************************************)
(* Properties of the metadata of the child groups and of the module        *)
(***************************************************************************)
\* the cell of the array whose index is i, and its FASM_PREFIX attribute
MemberOf(i) == CHOOSE c \in 1..Len(cells) : cells[c].cname = GenName(sA, i)
CarriesPrefix(i) == DictHas(cells[MemberOf(i)].cattrs, sFASM_PREFIX)
PrefixListOf(i) == DictGet(cells[MemberOf(i)].cattrs, sFASM_PREFIX)

\* the number of values of a semicolon-separated list
ValueCount(s) == 1 + Cardinality({k \in 1..Len(s) : s[k] = 59})

\* the strings of a sequence joined by single spaces
RECURSIVE JoinSpace(_)
JoinSpace(l) ==
    IF Len(l) = 1 THEN l[1] ELSE l[1] \o <<32>> \o JoinSpace(Tail(l))

\* C18: for a child group of N > 1 members that carry a FASM_PREFIX
\* attribute the build goes on only if every list has exactly N values; then
\* member i contributes the i-th value of its list and the merged fasm_prefix
\* of the group is the N values joined by single spaces in member order
C18_PrefixPerMember ==
    (Len(cells) > 1 /\ pc = "interconnect") =>
        LET N == Len(cells)
        IN  /\ \A i \in 0..(N - 1) :
                 CarriesPrefix(i) => ValueCount(PrefixListOf(i)) = N
            /\ (\A i \in 0..(N - 1) : CarriesPrefix(i)) =>
                 /\ Len(child_metadata) = 1
                 /\ DictHas(child_metadata[1].metadata, kFasmPrefix)
                 /\ DictGet(child_metadata[1].metadata, kFasmPrefix)
                      = JoinSpace([k \in 1..N |->
                                    Split(PrefixListOf(k - 1), 59)[k]])

\* three members listed in reverse order share "p;q;r": the group has "p q r"
C18_Witness ==
    /\ pc = "interconnect"
    /\ Len(cells) = 3
    /\ cells[1].cname = GenName(sA, 2)
    /\ \A i \in 0..2 : CarriesPrefix(i) /\ PrefixListOf(i) = vPQR
    /\ DictGet(child_metadata[1].metadata, kFasmPrefix)
         = <<112, 32, 113, 32, 114>>

\* C20: the build fails whenever a cell instance carries a module-only kind
\* of metadata (a parameter association or a feature tag) and whenever the
\* module definition carries the instance-only prefix kind
C20_CrossScopeFails ==
    pc = "returned" =>
        /\ \A c \in 1..Len(cells) :
             /\ ~DictHas(cells[c].cattrs, sFASM_PARAMS)
             /\ ~DictHas(cells[c].cattrs, sFASM_FEATURES)
        /\ ~DictHas(module_attrs, sFASM_PREFIX)

(***************************************************************************)
(* Properties of the modes                                                 *)
(***************************************************************************)
\* the modes whose section is written and whose module has no cell
NoChildrenModes == {j \in 1..Len(mode_xml) : Len(mode_cells[j]) = 0}

\* the connections (driver, sink) of a mode section
SectionConns(j) ==
    {<<mode_xml[j].interconnect[k].driver, mode_xml[j].interconnect[k].sink>> :
        k \in 1..Len(mode_xml[j].interconnect)}

\* C14: for a mode whose module has no cell no sub pb_type is produced and
\* the interconnect of the mode connects every own input port to the
\* same-named input of the mode and drives every own output port from the
\* same-named output of the mode
C14_ModeScopedBoundary ==
    \A j \in NoChildrenModes :
        /\ mode_xml[j].pb_type = <<>>
        /\ \A p \in 1..Len(ports) :
             IF ports[p].iodir = "input"
             THEN <<<<None, ports[p].name>>,
                    <<mode_xml[j].name, ports[p].name>>>> \in SectionConns(j)
             ELSE <<<<mode_xml[j].name, ports[p].name>>,
                    <<None, ports[p].name>>>> \in SectionConns(j)

\* C14 (amended): for a mode whose module has no cell no sub pb_type is
\* produced and the interconnect of the mode consists of one connection
\* (none, input bit) -> (none, output bit) for each pair of an own input bit
\* and an own output bit on the same net, and of nothing else: no end of a
\* connection is scoped to the mode
C14_PassthroughOnly ==
    \A j \in NoChildrenModes :
        /\ mode_xml[j].pb_type = <<>>
        /\ SectionConns(j)
             = {<<<<None, OwnBitName(io[1])>>, <<None, OwnBitName(io[2])>>>> :
                    io \in SameNetPairs}
        /\ Len(mode_xml[j].interconnect) = Cardinality(SameNetPairs)

\* a mode without cells whose section holds a pass-through connection, next
\* to own ports that no net joins
C14_Witness ==
    /\ pc = "returned"
    /\ \E j \in NoChildrenModes : Len(mode_xml[j].interconnect) = 1
    /\ Len(ports[1].bits) = 2

\* the mode names to which an attribute of the module is scoped
ScopedModes ==
    {sp.qualifier : sp \in UNION {Spelled(module_attrs[i].key) :
                                    i \in 1..Len(module_attrs)}} \ {None}

\* C15: for a mode whose module has no cell the build fails if the module
\* declares a metadata attribute scoped to that mode, and it does not fail
\* for this reason when the module declares none
C15_ModeMetadataFails ==
    /\ \A j \in NoChildrenModes : mode_xml[j].name \notin ScopedModes
    /\ err = "exit_mode_metadata" =>
          /\ Len(mode_cells[mode_i]) = 0
          /\ Strip(modes[mode_i]) \in ScopedModes

\* the names declared by the MODES attribute
Declared == Split(DictGet(module_attrs, sMODES), 59)

\* C16: a successful build of a module declaring modes m1;...;mn evaluates
\* each mode exactly once and emits exactly n mode sections, named by the
\* declared names with the surrounding blanks stripped, in declaration order
C16_ModesInOrder ==
    (pc = "returned" /\ DictHas(module_attrs, sMODES)) =>
        /\ Len(mode_xml) = ValueCount(DictGet(module_attrs, sMODES))
        /\ Len(mode_runs) = Len(mode_xml)
        /\ \A j \in 1..Len(mode_xml) :
             /\ mode_xml[j].name = Strip(Declared[j])
             /\ mode_runs[j] = Strip(Declared[j])
             /\ \A c \in 1..Len(mode_xml[j].name) : mode_xml[j].name[c] # 32

\* two modes, the second written with a leading blank, one with and one
\* without cells
C16_Witness ==
    /\ pc = "returned"
    /\ Len(mode_xml) = 2
    /\ Declared[2] = <<32>> \o mB
    /\ mode_xml[2].name = mB
    /\ mode_xml[1].pb_type = <<>> /\ mode_xml[2].pb_type # <<>>

\* C24: for a child group of more than one member where FASM_PREFIX is set
\* on at least one member but not on all of them the build fails, with the
\* error that the attribute must be set on all instances of the module type
C24_PartialPrefixFails ==
    (/\ Len(cells) > 1
     /\ \E i \in 0..(Len(cells) - 1) : CarriesPrefix(i)
     /\ \E i \in 0..(Len(cells) - 1) : ~CarriesPrefix(i)
     /\ pc \in {"interconnect", "done", "failed", "returned"}
     /\ err \notin {"exit_child_metadata", "exit_prefix_count",
                    "exit_metadata_conflict"})
        => (pc = "failed" /\ err = "exit_prefix_missing")

(***************************************************************************)
(* Properties of the pruning of the combinational sinks                    *)
(***************************************************************************)
\* C23: after the pruning the sinks kept for the port contain no output that
\* is reached from the port through a flip-flop (the port on D, the output on
\* Q of a $dff cell), whatever the list of sinks was
C23_NoRegisteredSinkKept ==
    pc = "pruned" =>
        \A k \in 1..Len(comb_sinks) :
            ~is_registered_path(tmod, sink_port, comb_sinks[k])

(***************************************************************************)
(* Properties of blackbox modules and of the modes with cells              *)
(***************************************************************************)
\* the modes whose section is written and whose module has cells
HasChildrenModes == {j \in 1..Len(mode_xml) : Len(mode_cells[j]) > 0}

\* C21: a module annotated blackbox gets no interconnect and no child
\* pb_types of its own, but when it declares modes, a mode whose module has
\* cells still gets its child pb_types and their interconnect
C21_BlackboxModesKeepChildren ==
    AttrIsOne(module_attrs, sBlackbox) =>
        /\ routing = <<>> /\ children = <<>> /\ child_metadata = <<>>
        /\ interconn = <<>> /\ directs = <<>> /\ muxes = <<>>
        /\ \A j \in HasChildrenModes :
             /\ mode_xml[j].pb_type # <<>>
             /\ mode_xml[j].pb_type[1].child_metadata # <<>>
             /\ mode_xml[j].pb_type[1].directs # <<>>

\* one connection per own port between the module and the mode
BoundaryConns(smode) ==
    {IF ports[p].iodir = "input"
     THEN <<<<None, ports[p].name>>, <<smode, ports[p].name>>>>
     ELSE <<<<smode, ports[p].name>>, <<None, ports[p].name>>>> :
        p \in 1..Len(ports)}

\* C22: for a mode whose module has cells make_pb_type is invoked once for
\* the mode, the interconnect of the mode is exactly one connection per own
\* port, module.port -> mode.port for an input and mode.port -> module.port
\* for an output, and the pb_type built by the recursion is the one in the
\* section, unchanged
C22_ModeBoundaryEdges ==
    /\ \A j \in HasChildrenModes :
         /\ SectionConns(j) = BoundaryConns(mode_xml[j].name)
         /\ Len(mode_xml[j].interconnect) = Len(ports)
         /\ \A k \in 1..Len(mode_xml[j].interconnect) :
               mode_xml[j].interconnect[k].attr = NoAttrs
         /\ mode_xml[j].pb_type
              = <<make_pb_type_of_mode(
                    port_attrs, [Mod EXCEPT !.cells = mode_cells[j]],
                    module_attrs, incl_metadata, mode_xml[j].name,
                    mode_cells, 1).pb>>
    /\ (err = "none" /\ pc \in {"modes", "modes_done", "returned"}) =>
          mpt_calls = 1 + Cardinality(HasChildrenModes)

\* a mode with a cell between ports of two bits: two connections, and a
\* container with its own interconnect below
C22_Witness ==
    /\ pc = "returned"
    /\ Len(ports[1].bits) = 2
    /\ \E j \in HasChildrenModes :
          /\ mode_xml[j].pb_type[1].kind = "container"
          /\ mode_xml[j].pb_type[1].directs # <<>>
          /\ Len(mode_xml[j].interconnect) = 2

\* C25: mode expansion terminates: for a module with n declared modes the
\* loop over the modes makes at most n passes, make_pb_type is entered at
\* most 1 + n times and no mode build is nested in another one, although the
\* module still carries MODES when it is built under a mode
C25_ModeExpansionBounded ==
    DictHas(module_attrs, sMODES) =>
        /\ Len(mode_runs) <= ValueCount(DictGet(module_attrs, sMODES))
        /\ Len(mode_runs) \in {mode_i - 1, mode_i}
        /\ mpt_calls <= 1 + ValueCount(DictGet(module_attrs, sMODES))
        /\ mpt_depth <= 1

\* two modes with cells: three entries of make_pb_type, nesting depth one
C25_Witness ==
    /\ pc = "returned"
    /\ Len(modes) = 2
    /\ HasChildrenModes = {1, 2}
    /\ mpt_calls = 3
    /\ mpt_depth = 1

====
